---- MODULE Spec2Model ----
(***************************************************************************)
(* cargUI (src/src/main.rs): the job supervision engine.                   *)
(*                                                                         *)
(* Threads of the program:                                                 *)
(*   - the UI thread, which runs the slint event loop: it handles the      *)
(*     user's callbacks (toggle_command, the release switch,               *)
(*     run_selection -> CommandRunner::start, CommandRunner::stop) and     *)
(*     the closures handed to it by upgrade_in_event_loop, in FIFO order;  *)
(*   - the "cargo-runner" worker thread (run_queue, spawn_and_stream);     *)
(*   - the two reader threads of the job in flight (stdout, stderr);       *)
(*   - the external cargo process of the job in flight.                    *)
(***************************************************************************)
EXTENDS Integers, Sequences, FiniteSets, TLC

(* ------------------------------ bounds -------------------------------- *)

\* warnings of failed run requests (a user-input error, a rejected or failed
\* start) that are pending or shown at a time; the runs are not bounded
MaxWarnings == 1
\* lines one process writes, to its two streams together
MaxLines == 1
\* closures the event loop may have pending when a thread hands it one more
MaxPending == 1

(* ------------------------------ catalog ------------------------------- *)

CommandSpec(l, s, r, p) ==
    [label |-> l, subcommand |-> s, supports_release |-> r, allows_program_args |-> p]

primary_specs ==
    << CommandSpec("Build", "build", TRUE, FALSE),
       CommandSpec("Run", "run", TRUE, TRUE) >>

secondary_specs ==
    << CommandSpec("Check", "check", TRUE, FALSE),
       CommandSpec("Test", "test", TRUE, TRUE),
       CommandSpec("Fmt", "fmt", FALSE, FALSE),
       CommandSpec("Clean", "clean", FALSE, FALSE),
       CommandSpec("Doc", "doc", TRUE, FALSE),
       CommandSpec("Clippy", "clippy", TRUE, FALSE),
       CommandSpec("Update", "update", FALSE, FALSE) >>

\* SelectedCommand { group, index }: index is 0-based as in the source
SelectedCommand(g, i) == [group |-> g, index |-> i]

\* Option<&CommandSpec> as a sequence of length 0 or 1
spec_for(sel) ==
    LET specs == IF sel.group = "Primary" THEN primary_specs ELSE secondary_specs
    IN  IF sel.index + 1 \in DOMAIN specs THEN << specs[sel.index + 1] >> ELSE << >>

QueuedCommand(d, f, r, p) ==
    [display_name |-> d, fragments |-> f, supports_release |-> r, allows_program_args |-> p]

(* ------------------------------- texts -------------------------------- *)
(* A text of a LineEdit is a sequence of lexemes: a word, the blank " "    *)
(* or a stray quote "'"; two words are never adjacent.                     *)

IsBlankText(text) == \A i \in DOMAIN text : text[i] = " "

NotBlank(x) == x # " "

\* shell_words::split: the words of the text; a quote left open is an error
split(text) ==
    IF \E i \in DOMAIN text : text[i] = "'"
    THEN [ok |-> FALSE, words |-> << >>]
    ELSE [ok |-> TRUE, words |-> SelectSeq(text, NotBlank)]

\* a text that cannot be split is taken for no arguments
parse_args_lenient(text) ==
    IF IsBlankText(text) \/ ~split(text).ok THEN [ok |-> TRUE, words |-> << >>]
    ELSE split(text)

parse_args(text) ==
    IF IsBlankText(text) THEN [ok |-> TRUE, words |-> << >>] ELSE split(text)

\* the texts the user has typed when run_requested fires
CargoArgsTexts == { << "--quiet" >> }
ProgramArgsTexts == { << "--nocapture" >> }
CustomTexts == { << "fmt" >>, << "cargo" >> }

\* the command buttons the user clicks: Build, and Fmt (no release support)
Clickable == { SelectedCommand("Primary", 0), SelectedCommand("Secondary", 2) }

(* ------------------------- Observer events ---------------------------- *)
(* A closure handed to the event loop: who posted it ("ui", "worker",      *)
(* "reader"), the 1-based position of the job it is about (0: none), the   *)
(* line it appends and the status it sets.                                 *)

(* A line of output or a status text: its kind k, the job's display name   *)
(* d, a detail x (an error, an exit status) and two numbers n, m.          *)
Text(k, d, x, n, m) == [k |-> k, d |-> d, x |-> x, n |-> n, m |-> m]
NoText == Text("", << >>, "", 0, 0)

Event(k, from, job, line, status) ==
    [k |-> k, from |-> from, job |-> job, line |-> line, status |-> status]

Streams == {"stdout", "stderr"}

(* ------------------------------ state --------------------------------- *)

VARIABLES
    \* the event loop and the AppWindow properties (the Observer)
    loopAlive,          \* the slint event loop is running
    evq,                \* the closures queued by upgrade_in_event_loop and not yet run
    running, status_text, output_text, release_selected, release_enabled,
    \* AppController
    selection,          \* VecDeque<SelectedCommand>
    \* the UI thread inside CommandRunner::start / stop
    uipc,               \* "idle", "start" (thread spawned, slot not yet set),
                        \* "stop_store", "stop_kill"
    stop_cancel,        \* stop(): it holds a clone of the cancel flag (Some / None)
    stop_child,         \* stop(): it holds a clone of the child slot (Some / None)
    \* RunnerState, and the cells of the session start created last.  A start
    \* allocates fresh cells; the old ones have no holder left by then (the old
    \* worker and its readers are gone and the UI thread is not inside stop), so
    \* the model keeps one pair of cells and start resets it
    active,             \* Option<ActiveRun>: the slot holds a session
    activeLock,         \* holder of the Mutex around it: "none", "ui"
    cancel,             \* the session's AtomicBool
    child_holder,       \* the session's Option<Child>: "none" or "child"
    childLock,          \* holder of the child_holder Mutex: "none", "worker"
    \* the worker thread
    wpc,                \* its position; "none": no worker thread
    w,                  \* its locals (those of the last worker once it has exited)
    \* the job in flight
    proc,               \* the cargo process
    pipe,               \* [stream -> lines written and not yet read]
    rd,                 \* [stream -> the reader thread]
    orphans,            \* reader threads spawn_and_stream returned without joining
    \* history
    spawnlog,           \* the processes spawned since the last start
    stopped,            \* a stop() that cloned the session's cells has returned
    \* a function of the program applied on its own
    io                  \* its inputs and what it has returned so far

uivars == << loopAlive, evq, running, status_text, output_text,
             release_selected, release_enabled, selection, uipc, stop_cancel,
             stop_child >>
sessvars == << active, activeLock, cancel, child_holder, childLock >>
jobvars == << wpc, w, proc, pipe, rd, orphans >>
histvars == << spawnlog, stopped >>
vars == << uivars, sessvars, jobvars, histvars, io >>

NoWorker ==
    [queue |-> << >>, cargo_args |-> << >>, program_args |-> << >>,
     release_selected |-> FALSE, idx |-> 0, args |-> << >>, status |-> ""]

NoProc == [st |-> "none", status |-> "", wrote |-> [s \in Streams |-> 0]]
NoReader == [st |-> "none", hand |-> NoText]
NoReaders == [s \in Streams |-> NoReader]
NoPipes == [s \in Streams |-> << >>]
NoIo == << >>

\* start is being called on its own, with queues given as they are
DirectCalls == "calls" \in DOMAIN io

\* the window, the controller and the runner as main builds them
Constructed ==
    /\ loopAlive = TRUE
    /\ evq = << >>
    /\ running = FALSE
    /\ status_text = Text("Idle", << >>, "", 0, 0)
    /\ output_text = << >>
    /\ release_selected = FALSE
    /\ release_enabled = TRUE
    /\ selection = << >>
    /\ uipc = "idle"
    /\ stop_cancel = FALSE
    /\ stop_child = FALSE
    /\ active = FALSE
    /\ activeLock = "none"
    /\ cancel = FALSE
    /\ child_holder = "none"
    /\ childLock = "none"
    /\ wpc = "none"
    /\ w = NoWorker
    /\ proc = NoProc
    /\ pipe = NoPipes
    /\ rd = NoReaders
    /\ orphans = {}
    /\ spawnlog = << >>
    /\ stopped = FALSE

Init == Constructed /\ io = NoIo

(* ------------------------ the event loop ------------------------------ *)

\* upgrade_in_event_loop: queues the closure, or fails when the loop is gone
HandOff(q, ev) == IF loopAlive THEN Append(q, ev) ELSE q

\* the loop keeps up with the threads: its backlog is bounded (a loop that is
\* gone queues nothing).  While the UI thread is inside a start called on its
\* own the loop runs nothing, and the worker is not held back
HasRoom == ~loopAlive \/ Len(evq) < MaxPending \/ (DirectCalls /\ uipc = "start")

\* append_line
append_line(out, line) == Append(out, line)

\* the event loop runs the next queued closure
HandleEvent ==
    /\ loopAlive
    /\ uipc = "idle"
    /\ evq # << >>
    /\ LET ev == Head(evq) IN
        /\ evq' = Tail(evq)
        /\ running' = CASE ev.k = "begin" -> TRUE
                        [] ev.k = "end" -> FALSE
                        [] OTHER -> running
        /\ output_text' = CASE ev.k = "begin" -> << >>
                            [] ev.k \in {"line", "fail"} -> append_line(output_text, ev.line)
                            [] OTHER -> output_text
        /\ status_text' = IF ev.k = "line" THEN status_text ELSE ev.status
    /\ UNCHANGED << loopAlive, release_selected, release_enabled, selection,
                    uipc, stop_cancel, stop_child >>
    /\ UNCHANGED << sessvars, jobvars, histvars >>
    /\ UNCHANGED io

\* ui.run() returns: no closure is accepted any more and the pending ones are
\* dropped unrun
QuitLoop ==
    /\ loopAlive
    /\ uipc = "idle"
    /\ loopAlive' = FALSE
    /\ evq' = << >>
    /\ UNCHANGED << running, status_text, output_text,
                    release_selected, release_enabled, selection, uipc, stop_cancel,
                    stop_child >>
    /\ UNCHANGED << sessvars, jobvars, histvars >>
    /\ UNCHANGED io

(* --------------------------- AppController ---------------------------- *)

Range(q) == { q[i] : i \in DOMAIN q }

PositionOf(q, x) == CHOOSE i \in DOMAIN q : q[i] = x /\ \A j \in 1..(i - 1) : q[j] # x

RemoveAt(q, i) == SubSeq(q, 1, i - 1) \o SubSeq(q, i + 1, Len(q))

\* a toggle that puts the command clicked ahead of the others
toggle_selection_front(sel, candidate, extend) ==
    LET s0 == IF extend THEN sel ELSE << >>
    IN  IF candidate \in Range(s0)
        THEN (IF Len(s0) = 1 /\ ~extend THEN s0 ELSE RemoveAt(s0, PositionOf(s0, candidate)))
        ELSE << candidate >> \o s0

\* a toggle that fills the place of the command it removes with the last one
toggle_selection_swap_remove(sel, candidate, extend) ==
    LET s0 == IF extend THEN sel ELSE << >>
        pos == PositionOf(s0, candidate)
        s1 == IF candidate \in Range(s0)
              THEN (IF pos = Len(s0) THEN SubSeq(s0, 1, Len(s0) - 1)
                    ELSE SubSeq([s0 EXCEPT ![pos] = s0[Len(s0)]], 1, Len(s0) - 1))
              ELSE Append(s0, candidate)
    IN  IF s1 = << >> /\ ~extend THEN Append(s1, candidate) ELSE s1

\* the selection toggle_command leaves
toggle_selection(sel, candidate, extend) ==
    LET s0 == IF extend THEN sel ELSE << >>
        s1 == IF candidate \in Range(s0)
              THEN RemoveAt(s0, PositionOf(s0, candidate))
              ELSE Append(s0, candidate)
    IN  IF s1 = << >> /\ ~extend THEN Append(s1, candidate) ELSE s1

\* refresh_release_state: every selected command supports --release
release_allowed(sel) ==
    \A i \in DOMAIN sel :
        spec_for(sel[i]) = << >> \/ spec_for(sel[i])[1].supports_release

\* the user's schedule: the commands and the switch are set up between two
\* runs, while no worker lives and the event loop has nothing pending
UserMayClick == wpc = "none" /\ evq = << >>

\* a toggle_command whose refresh leaves the switch as it is
toggle_command_keeps_switch(candidate, extend) ==
    /\ selection' = toggle_selection(selection, candidate, extend)
    /\ release_enabled' = release_allowed(selection')
    /\ release_selected' = release_selected

\* toggle_command: the selection, then refresh_release_state
toggle_command(candidate, extend) ==
    /\ selection' = toggle_selection(selection, candidate, extend)
    /\ release_enabled' = release_allowed(selection')
    /\ release_selected' = IF release_allowed(selection') THEN release_selected ELSE FALSE

\* a command button is pressed (the buttons are disabled while running)
ToggleCommand ==
    /\ loopAlive
    /\ uipc = "idle"
    /\ ~running
    /\ UserMayClick
    /\ \E candidate \in Clickable, extend \in BOOLEAN :
        toggle_command(candidate, extend)
    /\ UNCHANGED << loopAlive, evq, running, status_text, output_text,
                    uipc, stop_cancel, stop_child >>
    /\ UNCHANGED << sessvars, jobvars, histvars >>
    /\ UNCHANGED io

\* ReleaseSwitch: clicked => selected = !selected, enabled only when
\* release_enabled && !running
ReleaseSwitchClicked ==
    /\ loopAlive
    /\ uipc = "idle"
    /\ release_enabled /\ ~running
    /\ UserMayClick
    /\ release_selected' = ~release_selected
    /\ UNCHANGED << loopAlive, evq, running, status_text, output_text,
                    release_enabled, selection, uipc, stop_cancel, stop_child >>
    /\ UNCHANGED << sessvars, jobvars, histvars >>
    /\ UNCHANGED io

\* fragments.join(" "): the words with one blank between two of them
RECURSIVE join(_)
join(words) ==
    IF Len(words) <= 1 THEN words
    ELSE << words[1], " " >> \o join(Tail(words))

RECURSIVE selected_jobs(_)
selected_jobs(sel) ==
    IF sel = << >> THEN << >>
    ELSE LET sp == spec_for(Head(sel))
             job == IF sp = << >> THEN << >>
                    ELSE << QueuedCommand(<< sp[1].subcommand >>, << sp[1].subcommand >>,
                                          sp[1].supports_release,
                                          sp[1].allows_program_args) >>
         IN  job \o selected_jobs(Tail(sel))

UiError(line, status) ==
    Event("fail", "ui", 0, Text("warn", << >>, line, 0, 0), Text(status, << >>, line, 0, 0))

\* the custom text is read whatever the selection
reads_custom_text_always(sel, custom_text) == ~IsBlankText(custom_text)

\* the custom text is read: nothing is selected and the text is not blank
reads_custom_text(sel, custom_text) == sel = << >> /\ ~IsBlankText(custom_text)

\* a leading "cargo" is kept
custom_fragments_kept(parts) == parts

\* every leading "cargo" is dropped
RECURSIVE custom_fragments_stripped(_)
custom_fragments_stripped(parts) ==
    IF parts # << >> /\ parts[1] = "cargo" THEN custom_fragments_stripped(Tail(parts))
    ELSE parts

\* the fragments of a custom command: its words, less a leading "cargo"
custom_fragments(parts) ==
    IF parts # << >> /\ parts[1] = "cargo" THEN Tail(parts) ELSE parts

\* the first command of the primary group taken for the default
default_spec_first == << primary_specs[1] >>

\* the default command: the primary spec whose subcommand is "run", if any
default_spec == SelectSeq(primary_specs, LAMBDA sp : sp.subcommand = "run")

\* the job run_selection makes of a custom command
custom_job(fragments) == QueuedCommand(join(fragments), fragments, FALSE, TRUE)

\* run_selection up to the call of start: the closure it posts on a user-input
\* error, or the queue and the arguments it hands to start
run_selection(sel, cargo_text, program_text, custom_text) ==
    LET cargo == parse_args(cargo_text)
        program == parse_args(program_text)
        parts == split(custom_text)
        fragments == custom_fragments(parts.words)
        use_custom == reads_custom_text(sel, custom_text)
        custom == IF use_custom THEN << custom_job(fragments) >> ELSE << >>
        queue == custom \o selected_jobs(sel)
        run_specs == default_spec
        fallback == << QueuedCommand(<< run_specs[1].subcommand >>,
                                     << run_specs[1].subcommand >>,
                                     run_specs[1].supports_release,
                                     run_specs[1].allows_program_args) >>
        Fail(ev) == [ok |-> FALSE, ev |-> ev, queue |-> << >>,
                     cargo_args |-> << >>, program_args |-> << >>]
    IN  CASE ~cargo.ok -> Fail(UiError("invalid cargo args", "Failed"))
          [] ~program.ok -> Fail(UiError("invalid program args", "Failed"))
          [] use_custom /\ ~parts.ok -> Fail(UiError("invalid custom command", "Failed"))
          [] use_custom /\ fragments = << >> ->
                Fail(UiError("custom command needs a subcommand", "Custom command incomplete"))
          [] queue = << >> /\ run_specs = << >> ->
                Fail(Event("status", "ui", 0, NoText,
                           Text("Select a command first", << >>, "", 0, 0)))
          [] OTHER ->
                [ok |-> TRUE, ev |-> UiError("", ""),
                 queue |-> IF queue = << >> THEN fallback ELSE queue,
                 cargo_args |-> cargo.words, program_args |-> program.words]

\* a start that looks at the slot only
start_check_slot_only(queue) ==
    IF active THEN "another job is already running" ELSE "ok"

\* start without the check of the slot
start_check_unguarded(queue) ==
    IF queue = << >> THEN "no commands selected" ELSE "ok"

\* CommandRunner::start before it spawns the thread: the error it returns, or "ok"
start_check(queue) ==
    IF queue = << >> THEN "no commands selected"
    ELSE IF active THEN "another job is already running"
    ELSE "ok"

\* the warnings of failed requests the Observer has pending or shows
Warnings ==
    Cardinality({ i \in DOMAIN evq : evq[i].from = "ui" })
    + Cardinality({ i \in DOMAIN output_text : output_text[i].k = "warn" })

\* the Enter key (accepted only while !running)
RunRequested ==
    /\ loopAlive
    /\ uipc = "idle"
    /\ ~running

\* run_selection returns on a user-input error in the texts ct, pt and xt
InputError(ct, pt, xt) ==
    /\ RunRequested
    /\ Warnings < MaxWarnings
    /\ LET r == run_selection(selection, ct, pt, xt) IN
        /\ ~r.ok
        /\ evq' = Append(evq, r.ev)
    /\ UNCHANGED << loopAlive, running, status_text, output_text,
                    release_selected, release_enabled, selection, uipc, stop_cancel,
                    stop_child >>
    /\ UNCHANGED << sessvars, jobvars, histvars >>

RunInputError ==
    /\ \E ct \in CargoArgsTexts, pt \in ProgramArgsTexts, xt \in CustomTexts :
        InputError(ct, pt, xt)
    /\ UNCHANGED io

\* a rejection that cancels the run it found
RunRejectedCancelling ==
    /\ RunRequested
    /\ Warnings < MaxWarnings
    /\ activeLock = "none"
    /\ active
    /\ evq' = Append(evq, UiError("another job is already running", "Failed"))
    /\ cancel' = TRUE
    /\ UNCHANGED << loopAlive, running, status_text, output_text,
                    release_selected, release_enabled, selection, uipc, stop_cancel,
                    stop_child >>
    /\ UNCHANGED << active, activeLock, child_holder, childLock, jobvars, histvars >>
    /\ UNCHANGED io

\* start returns an error before spawning the thread
RunRejected ==
    /\ RunRequested
    /\ Warnings < MaxWarnings
    /\ activeLock = "none"
    /\ \E ct \in CargoArgsTexts, pt \in ProgramArgsTexts, xt \in CustomTexts :
        LET r == run_selection(selection, ct, pt, xt) IN
        /\ r.ok
        /\ start_check(r.queue) # "ok"
        /\ evq' = Append(evq, UiError(start_check(r.queue), "Failed"))
    /\ UNCHANGED << loopAlive, running, status_text, output_text,
                    release_selected, release_enabled, selection, uipc, stop_cancel,
                    stop_child >>
    /\ UNCHANGED << sessvars, jobvars, histvars >>
    /\ UNCHANGED io

\* thread::Builder::spawn fails: start returns the error with the slot left empty
RunThreadSpawnFailed ==
    /\ RunRequested
    /\ Warnings < MaxWarnings
    /\ activeLock = "none"
    /\ \E ct \in CargoArgsTexts, pt \in ProgramArgsTexts, xt \in CustomTexts :
        LET r == run_selection(selection, ct, pt, xt) IN
        /\ r.ok
        /\ start_check(r.queue) = "ok"
        /\ evq' = Append(evq, UiError("thread spawn failed", "Failed"))
    /\ UNCHANGED << loopAlive, running, status_text, output_text,
                    release_selected, release_enabled, selection, uipc, stop_cancel,
                    stop_child >>
    /\ UNCHANGED << sessvars, jobvars, histvars >>
    /\ UNCHANGED io

\* a start that hands the worker the flag and the child slot of the run before
start_reuses_cells(queue, cargo_args, program_args, release) ==
    /\ activeLock = "none"
    /\ start_check(queue) = "ok"
    /\ w' = [queue |-> queue, cargo_args |-> cargo_args,
             program_args |-> program_args,
             release_selected |-> release,
             idx |-> 0, args |-> << >>, status |-> ""]
    /\ wpc' = "begin"
    /\ activeLock' = "ui"
    /\ uipc' = "start"
    /\ spawnlog' = << >>
    /\ stopped' = FALSE
    /\ UNCHANGED << loopAlive, evq, running, status_text, output_text,
                    release_selected, release_enabled, selection, stop_cancel,
                    stop_child >>
    /\ UNCHANGED << active, childLock, proc, pipe, rd, cancel, child_holder, orphans >>

\* CommandRunner::start past its two checks: it holds the lock, has found the
\* slot empty, creates the session's cells and spawns the worker thread
start(queue, cargo_args, program_args, release) ==
    /\ activeLock = "none"
    /\ start_check(queue) = "ok"
    /\ w' = [queue |-> queue, cargo_args |-> cargo_args,
             program_args |-> program_args,
             release_selected |-> release,
             idx |-> 0, args |-> << >>, status |-> ""]
    /\ cancel' = FALSE
    /\ child_holder' = "none"
    /\ wpc' = "begin"
    /\ activeLock' = "ui"
    /\ uipc' = "start"
    /\ orphans' = { [o EXCEPT !.flag = IF @ = "live" THEN (IF cancel THEN "set" ELSE "clear")
                                       ELSE @] : o \in orphans }
    /\ spawnlog' = << >>
    /\ stopped' = FALSE
    /\ UNCHANGED << loopAlive, evq, running, status_text, output_text,
                    release_selected, release_enabled, selection, stop_cancel,
                    stop_child >>
    /\ UNCHANGED << active, childLock, proc, pipe, rd >>

\* Enter with texts run_selection accepts: it calls start with the queue and the
\* arguments it has built, and start spawns the worker thread
Start(ct, pt, xt) ==
    /\ RunRequested
    /\ LET r == run_selection(selection, ct, pt, xt) IN
        /\ r.ok
        /\ start(r.queue, r.cargo_args, r.program_args, release_selected)

RunStart ==
    /\ \E ct \in CargoArgsTexts, pt \in ProgramArgsTexts, xt \in CustomTexts :
        Start(ct, pt, xt)
    /\ UNCHANGED io

\* start stores the session in the slot and returns, releasing the lock
StartInstall ==
    /\ uipc = "start"
    /\ active' = TRUE
    /\ activeLock' = "none"
    /\ uipc' = "idle"
    /\ UNCHANGED << loopAlive, evq, running, status_text, output_text,
                    release_selected, release_enabled, selection, stop_cancel,
                    stop_child >>
    /\ UNCHANGED << cancel, child_holder, childLock, jobvars, histvars >>
    /\ UNCHANGED io

(* ------------------------- CommandRunner::stop ------------------------ *)

\* a stop that reaches for the cells of the last session even when the slot is empty
StopRequestedStale ==
    /\ loopAlive
    /\ uipc = "idle"
    /\ running
    /\ activeLock = "none"
    /\ stop_cancel' = TRUE
    /\ stop_child' = TRUE
    /\ uipc' = "stop_store"
    /\ UNCHANGED << loopAlive, evq, running, status_text, output_text,
                    release_selected, release_enabled, selection >>
    /\ UNCHANGED << sessvars, jobvars, histvars >>
    /\ UNCHANGED io

\* Ctrl+C (accepted only while running): stop locks the slot and clones the
\* active session's cells, if there is one
StopRequested ==
    /\ loopAlive
    /\ uipc = "idle"
    /\ running
    /\ activeLock = "none"
    /\ stop_cancel' = active
    /\ stop_child' = active
    /\ uipc' = "stop_store"
    /\ UNCHANGED << loopAlive, evq, running, status_text, output_text,
                    release_selected, release_enabled, selection >>
    /\ UNCHANGED << sessvars, jobvars, histvars >>
    /\ UNCHANGED io

\* if let Some(cancel) = cancel { cancel.store(true) }
StopStore ==
    /\ uipc = "stop_store"
    /\ cancel' = IF stop_cancel THEN TRUE ELSE cancel
    /\ uipc' = "stop_kill"
    /\ UNCHANGED << loopAlive, evq, running, status_text, output_text,
                    release_selected, release_enabled, selection, stop_cancel,
                    stop_child >>
    /\ UNCHANGED << active, activeLock, child_holder, childLock, jobvars, histvars >>
    /\ UNCHANGED io

\* Child::kill on a process: it dies unless it has exited already
kill(p) == IF p.st = "alive" THEN [p EXCEPT !.st = "exited", !.status = "killed"] ELSE p

\* the process stop() kills: the one in the cloned slot, if the slot holds one
stop_kills == stop_child /\ child_holder = "child"

\* a stop that takes the child out of the slot to kill it
StopKillTakes ==
    /\ uipc = "stop_kill"
    /\ stop_child => childLock = "none"
    /\ proc' = IF stop_kills THEN kill(proc) ELSE proc
    /\ child_holder' = IF stop_child THEN "none" ELSE child_holder
    /\ stopped' = IF stop_child THEN TRUE ELSE stopped
    /\ stop_cancel' = FALSE
    /\ stop_child' = FALSE
    /\ uipc' = "idle"
    /\ UNCHANGED << loopAlive, evq, running, status_text, output_text,
                    release_selected, release_enabled, selection >>
    /\ UNCHANGED << active, activeLock, cancel, childLock, wpc, w, pipe, rd,
                    orphans, spawnlog >>
    /\ UNCHANGED io

\* a stop that joins the worker thread before it goes for the child
StopKillJoins ==
    /\ uipc = "stop_kill"
    /\ wpc = "none"
    /\ stop_child => childLock = "none"
    /\ proc' = IF stop_kills THEN kill(proc) ELSE proc
    /\ stopped' = IF stop_child THEN TRUE ELSE stopped
    /\ stop_cancel' = FALSE
    /\ stop_child' = FALSE
    /\ uipc' = "idle"
    /\ UNCHANGED << loopAlive, evq, running, status_text, output_text,
                    release_selected, release_enabled, selection >>
    /\ UNCHANGED << sessvars, wpc, w, pipe, rd, orphans, spawnlog >>
    /\ UNCHANGED io

\* if let Some(child_slot) = child_slot { lock; if let Some(child) { child.kill() } }
StopKill ==
    /\ uipc = "stop_kill"
    /\ stop_child => childLock = "none"
    /\ proc' = IF stop_kills THEN kill(proc) ELSE proc
    /\ stopped' = IF stop_child THEN TRUE ELSE stopped
    /\ stop_cancel' = FALSE
    /\ stop_child' = FALSE
    /\ uipc' = "idle"
    /\ UNCHANGED << loopAlive, evq, running, status_text, output_text,
                    release_selected, release_enabled, selection >>
    /\ UNCHANGED << sessvars, wpc, w, pipe, rd, orphans, spawnlog >>
    /\ UNCHANGED io

(* ------------------------------ run_queue ----------------------------- *)

\* a count of the jobs that are still to come
total_left == Len(w.queue) - w.idx

total == Len(w.queue)
command == w.queue[w.idx]
display == command.display_name

\* a command line that takes --release whenever the switch is on
build_full_command_unchecked(cmd, release, cargo_args, program_args) ==
    LET a1 == IF release THEN Append(cmd.fragments, "--release") ELSE cmd.fragments
        a2 == a1 \o cargo_args
    IN  IF cmd.allows_program_args /\ program_args # << >>
        THEN Append(a2, "--") \o program_args
        ELSE a2

\* a command line that takes the program's arguments whenever there are some
build_full_command_always_trailing(cmd, release, cargo_args, program_args) ==
    LET a1 == IF release /\ cmd.supports_release
              THEN Append(cmd.fragments, "--release") ELSE cmd.fragments
        a2 == a1 \o cargo_args
    IN  IF program_args # << >>
        THEN Append(a2, "--") \o program_args
        ELSE a2

\* a command line with cargo's arguments ahead of --release
build_full_command_cargo_first(cmd, release, cargo_args, program_args) ==
    LET a1 == cmd.fragments \o cargo_args
        a2 == IF release /\ cmd.supports_release THEN Append(a1, "--release") ELSE a1
    IN  IF cmd.allows_program_args /\ program_args # << >>
        THEN Append(a2, "--") \o program_args
        ELSE a2

build_full_command(cmd, release, cargo_args, program_args) ==
    LET a1 == IF release /\ cmd.supports_release
              THEN Append(cmd.fragments, "--release") ELSE cmd.fragments
        a2 == a1 \o cargo_args
    IN  IF cmd.allows_program_args /\ program_args # << >>
        THEN Append(a2, "--") \o program_args
        ELSE a2

WorkerEvent(k, line, status) == Event(k, "worker", w.idx, line, status)

\* the first hand-off: running, cleared output, "Running N command(s)"
WorkerBegin ==
    /\ wpc = "begin"
    /\ HasRoom
    /\ IF loopAlive
       THEN /\ evq' = Append(evq, Event("begin", "worker", 0, NoText,
                                              Text("Running", << >>, "", total, 0)))
            /\ w' = [w EXCEPT !.idx = 1]
            /\ wpc' = "check"
       ELSE /\ wpc' = "cleanup"
            /\ UNCHANGED << evq, w >>
    /\ UNCHANGED << loopAlive, running, status_text, output_text,
                    release_selected, release_enabled, selection, uipc, stop_cancel,
                    stop_child >>
    /\ UNCHANGED << sessvars, proc, pipe, rd, orphans, histvars >>
    /\ UNCHANGED io

\* the notice run_queue posts before a job that cannot take --release
release_notice(cmd, release) ==
    IF release /\ ~cmd.supports_release
    THEN << WorkerEvent("line", Text("ignoring --release", cmd.display_name, "", 0, 0), NoText) >>
    ELSE << >>

\* a loop that looks at the flag before its first job only
loop_ends_first_only == w.idx > total \/ (cancel /\ w.idx = 1)

\* a loop that goes through the queue whatever the flag
loop_ends_unchecked == w.idx > total

\* the loop is over: the queue is used up, or the flag is set before a job
loop_ends == w.idx > total \/ cancel

\* the head of the loop: the end of the queue, the cancel check, the command
\* line, the notice and the "[i/N]" status
WorkerCheck ==
    /\ wpc = "check"
    /\ HasRoom
    /\ IF loop_ends
       THEN /\ wpc' = "final"
            /\ UNCHANGED << evq, w >>
       ELSE /\ w' = [w EXCEPT !.args = build_full_command(command, w.release_selected,
                                                         w.cargo_args, w.program_args)]
            /\ evq' = IF loopAlive
                         THEN evq \o release_notice(command, w.release_selected)
                              \o << WorkerEvent("status", NoText,
                                                Text("progress", display, "", w.idx, total)) >>
                         ELSE evq
            /\ wpc' = IF loopAlive THEN "spawn" ELSE "final"
    /\ UNCHANGED << loopAlive, running, status_text, output_text,
                    release_selected, release_enabled, selection, uipc, stop_cancel,
                    stop_child >>
    /\ UNCHANGED << sessvars, proc, pipe, rd, orphans, histvars >>
    /\ UNCHANGED io

\* the closure of the Err arm: the error line and the "Failed" status
JobError(err) ==
    WorkerEvent("fail", Text("failed to run", display, err, 0, 0),
                Text("Failed", << >>, err, 0, 0))

\* cmd.spawn() succeeds: the process runs
WorkerSpawn ==
    /\ wpc = "spawn"
    /\ proc' = [st |-> "alive", status |-> "", wrote |-> [s \in Streams |-> 0]]
    /\ pipe' = NoPipes
    /\ spawnlog' = Append(spawnlog, [job |-> w.idx, args |-> w.args,
                                     cancelled |-> cancel, stopped |-> stopped,
                                     exit |-> ""])
    /\ w' = [w EXCEPT !.status = ""]
    /\ wpc' = "store"
    /\ UNCHANGED << uivars, sessvars, rd, orphans, stopped >>
    /\ UNCHANGED io

\* a failed spawn is reported and the loop goes on to the next job
WorkerSpawnFailedSkips ==
    /\ wpc = "spawn"
    /\ HasRoom
    /\ evq' = HandOff(evq, JobError("spawning cargo"))
    /\ w' = [w EXCEPT !.status = "spawning cargo", !.idx = @ + 1]
    /\ wpc' = "check"
    /\ UNCHANGED << loopAlive, running, status_text, output_text,
                    release_selected, release_enabled, selection, uipc, stop_cancel,
                    stop_child >>
    /\ UNCHANGED << sessvars, proc, pipe, rd, orphans, histvars >>
    /\ UNCHANGED io

\* cmd.spawn() fails: spawn_and_stream returns the error
WorkerSpawnFailed ==
    /\ wpc = "spawn"
    /\ HasRoom
    /\ evq' = HandOff(evq, JobError("spawning cargo"))
    /\ w' = [w EXCEPT !.status = "spawning cargo"]
    /\ wpc' = "final"
    /\ UNCHANGED << loopAlive, running, status_text, output_text,
                    release_selected, release_enabled, selection, uipc, stop_cancel,
                    stop_child >>
    /\ UNCHANGED << sessvars, proc, pipe, rd, orphans, histvars >>
    /\ UNCHANGED io

\* a store of the child that also clears the flag
WorkerStoreClearsFlag ==
    /\ wpc = "store"
    /\ childLock = "none"
    /\ child_holder' = "child"
    /\ cancel' = FALSE
    /\ rd' = [s \in Streams |-> [st |-> "read", hand |-> NoText]]
    /\ wpc' = "reclaim"
    /\ UNCHANGED << uivars, active, activeLock, childLock, w, proc,
                    pipe, orphans, histvars >>
    /\ UNCHANGED io

\* the child goes into the shared slot, its pipes are taken out of it (both are
\* there: the command was built with Stdio::piped() for each) and the two
\* reader threads are spawned
WorkerStore ==
    /\ wpc = "store"
    /\ childLock = "none"
    /\ child_holder' = "child"
    /\ rd' = [s \in Streams |-> [st |-> "read", hand |-> NoText]]
    /\ wpc' = "reclaim"
    /\ UNCHANGED << uivars, active, activeLock, cancel, childLock, w, proc,
                    pipe, orphans, histvars >>
    /\ UNCHANGED io

\* the readers of the job in flight, as threads nobody joins.  Their process has
\* exited; a reader with no line in hand and nothing left to read can only find
\* the end of its stream and finish, so it is left out
unjoined ==
    { [job |-> w.idx, stream |-> s, st |-> rd[s].st, hand |-> rd[s].hand,
       buf |-> pipe[s], flag |-> "live"] :
      s \in { t \in Streams : rd[t].st = "post" \/ (rd[t].st = "read" /\ pipe[t] # << >>) } }

\* the worker locks the slot and waits on the child where it lies
WorkerReclaimInPlace ==
    /\ wpc = "reclaim"
    /\ HasRoom
    /\ childLock = "none"
    /\ child_holder = "child"
    /\ childLock' = "worker"
    /\ wpc' = "drop"
    /\ UNCHANGED << uivars, active, activeLock, cancel, child_holder, w, proc,
                    pipe, rd, orphans, histvars >>
    /\ UNCHANGED io

\* the worker locks the slot and takes the child back to wait on it
WorkerReclaim ==
    /\ wpc = "reclaim"
    /\ HasRoom
    /\ childLock = "none"
    /\ IF child_holder = "child"
       THEN /\ child_holder' = "none"
            /\ childLock' = "worker"
            /\ wpc' = "drop"
            /\ UNCHANGED << evq, orphans, rd, pipe, proc, w >>
       ELSE \* "child process missing": the error return, the readers left behind
            /\ evq' = HandOff(evq, JobError("child process missing"))
            /\ orphans' = orphans \cup unjoined
            /\ rd' = NoReaders
            /\ pipe' = NoPipes
            /\ proc' = NoProc
            /\ w' = [w EXCEPT !.status = "child process missing"]
            /\ wpc' = "final"
            /\ UNCHANGED << child_holder, childLock >>
    /\ UNCHANGED << loopAlive, running, status_text, output_text,
                    release_selected, release_enabled, selection, uipc, stop_cancel,
                    stop_child >>
    /\ UNCHANGED << active, activeLock, cancel, histvars >>
    /\ UNCHANGED io

\* the worker goes on to wait with the lock of the slot in its hands
WorkerKeepsSlotLocked ==
    /\ wpc = "drop"
    /\ wpc' = "wait"
    /\ UNCHANGED << uivars, sessvars, w, proc, pipe, rd, orphans, histvars >>
    /\ UNCHANGED io

\* drop(slot): the lock is released before the wait
WorkerDropSlot ==
    /\ wpc = "drop"
    /\ childLock' = "none"
    /\ wpc' = "wait"
    /\ UNCHANGED << uivars, active, activeLock, cancel, child_holder, w, proc,
                    pipe, rd, orphans, histvars >>
    /\ UNCHANGED io

\* child.wait() returns the exit status of the process
WorkerWait ==
    /\ wpc = "wait"
    /\ proc.st = "exited"
    /\ w' = [w EXCEPT !.status = proc.status]
    /\ spawnlog' = [spawnlog EXCEPT ![Len(spawnlog)].exit = proc.status]
    /\ wpc' = "join"
    /\ UNCHANGED << uivars, sessvars, proc, pipe, rd, orphans, stopped >>
    /\ UNCHANGED io

\* child.wait() returns an error: spawn_and_stream returns it at once, without
\* joining the readers
WorkerWaitFailed ==
    /\ wpc = "wait"
    /\ HasRoom
    /\ proc.st = "exited"
    /\ evq' = HandOff(evq, JobError("wait failed"))
    /\ orphans' = orphans \cup unjoined
    /\ rd' = NoReaders
    /\ pipe' = NoPipes
    /\ proc' = NoProc
    /\ w' = [w EXCEPT !.status = "wait failed"]
    /\ wpc' = "final"
    /\ UNCHANGED << loopAlive, running, status_text, output_text,
                    release_selected, release_enabled, selection, uipc, stop_cancel,
                    stop_child >>
    /\ UNCHANGED << sessvars, histvars >>
    /\ UNCHANGED io

\* a summary that never reports success
summary_failure_only(status, name) == Text("exited with status", name, status, 0, 0)

\* a loop that goes on to the next job whatever the status
after_job_continue(status, idx) == [idx |-> idx + 1, pc |-> "check"]

\* the summary line of a job whose process was waited for
summary(status, name) ==
    IF status = "success"
    THEN Text("completed", name, "", 0, 0)
    ELSE Text("exited with status", name, status, 0, 0)

\* if !status.success() { break; }: where the loop goes after the summary
after_job(status, idx) ==
    IF status = "success"
    THEN [idx |-> idx + 1, pc |-> "check"]
    ELSE [idx |-> idx, pc |-> "final"]

\* spawn_and_stream returns the exit status and leaves the readers running
WorkerJoinDetached ==
    /\ wpc = "join"
    /\ HasRoom
    /\ evq' = HandOff(evq, WorkerEvent("line", summary(w.status, display), NoText))
    /\ w' = [w EXCEPT !.idx = after_job(w.status, w.idx).idx]
    /\ wpc' = after_job(w.status, w.idx).pc
    /\ proc' = NoProc
    /\ UNCHANGED << loopAlive, running, status_text, output_text,
                    release_selected, release_enabled, selection, uipc, stop_cancel,
                    stop_child >>
    /\ UNCHANGED << sessvars, rd, pipe, orphans, histvars >>
    /\ UNCHANGED io

\* the two joins, then the Ok arm of run_queue: the summary line of the job
WorkerJoin ==
    /\ wpc = "join"
    /\ HasRoom
    /\ \A s \in Streams : rd[s].st = "done"
    /\ evq' = HandOff(evq, WorkerEvent("line", summary(w.status, display), NoText))
    /\ w' = [w EXCEPT !.idx = after_job(w.status, w.idx).idx]
    /\ wpc' = after_job(w.status, w.idx).pc
    /\ rd' = NoReaders
    /\ pipe' = NoPipes
    /\ proc' = NoProc
    /\ UNCHANGED << loopAlive, running, status_text, output_text,
                    release_selected, release_enabled, selection, uipc, stop_cancel,
                    stop_child >>
    /\ UNCHANGED << sessvars, orphans, histvars >>
    /\ UNCHANGED io

\* a final status that never tells of the cancellation
final_status_idle(cancelled) == Text("Idle", << >>, "", 0, 0)

\* the status of the final closure
final_status(cancelled) == Text(IF cancelled THEN "Cancelled" ELSE "Idle", << >>, "", 0, 0)

\* after the loop: running = false and "Cancelled" or "Idle"
WorkerFinal ==
    /\ wpc = "final"
    /\ HasRoom
    /\ evq' = HandOff(evq, Event("end", "worker", 0, NoText, final_status(cancel)))
    /\ wpc' = "cleanup"
    /\ UNCHANGED << loopAlive, running, status_text, output_text,
                    release_selected, release_enabled, selection, uipc, stop_cancel,
                    stop_child >>
    /\ UNCHANGED << sessvars, w, proc, pipe, rd, orphans, histvars >>
    /\ UNCHANGED io

\* a worker that exits without clearing the slot
WorkerExitKeepsSlot ==
    /\ wpc = "cleanup"
    /\ activeLock = "none"
    /\ wpc' = "none"
    /\ UNCHANGED << uivars, sessvars, w, proc, pipe, rd, orphans, histvars >>
    /\ UNCHANGED io

\* a worker that clears the slot without waiting for the lock
WorkerCleanupUnlocked ==
    /\ wpc = "cleanup"
    /\ active' = FALSE
    /\ wpc' = "none"
    /\ UNCHANGED << uivars, activeLock, cancel, child_holder, childLock, w, proc,
                    pipe, rd, orphans, histvars >>
    /\ UNCHANGED io

\* the thread's last statements: lock the slot, slot.take(); the thread exits
WorkerCleanup ==
    /\ wpc = "cleanup"
    /\ activeLock = "none"
    /\ active' = FALSE
    /\ wpc' = "none"
    /\ UNCHANGED << uivars, activeLock, cancel, child_holder, childLock, w, proc,
                    pipe, rd, orphans, histvars >>
    /\ UNCHANGED io

(* ------------------- the process and the reader loops ------------------ *)

\* the process writes a line (valid UTF-8 or not) to a stream whose read end is open
ProcWrite ==
    /\ proc.st = "alive"
    /\ \E s \in Streams, kind \in {"utf8", "invalid"} :
        /\ proc.wrote["stdout"] + proc.wrote["stderr"] < MaxLines
        /\ rd[s].st # "done"
        /\ pipe' = [pipe EXCEPT ![s] = Append(@, Text("raw", << >>, kind, proc.wrote[s] + 1, 0))]
        /\ proc' = [proc EXCEPT !.wrote[s] = @ + 1]
    /\ UNCHANGED << uivars, sessvars, wpc, w, rd, orphans, histvars >>
    /\ UNCHANGED io

\* the process exits on its own
ProcExit ==
    /\ proc.st = "alive"
    /\ \E status \in {"success", "failure"} :
        proc' = [proc EXCEPT !.st = "exited", !.status = status]
    /\ UNCHANGED << uivars, sessvars, wpc, w, pipe, rd, orphans, histvars >>
    /\ UNCHANGED io

\* the line a reader hands to the Observer: stderr lines carry the prefix
formatted(stream, raw) ==
    Text(IF stream = "stderr" THEN "[stderr]" ELSE "stdout", << >>, "", raw.n, 0)

\* one turn of `for line in reader.lines()`: the reader a line (or the end of
\* the stream) has woken, after its cancel check; flag is the session's flag
reader_turn(stream, buf, flag) ==
    IF buf = << >> THEN [st |-> "done", hand |-> NoText]
    ELSE IF flag THEN [st |-> "done", hand |-> NoText]
    ELSE IF Head(buf).x = "invalid" THEN [st |-> "done", hand |-> NoText]
    ELSE [st |-> "post", hand |-> formatted(stream, Head(buf))]

\* a reader gets its next line, or the end of the stream once the process is gone
ReaderRead ==
    /\ \E s \in Streams :
        /\ rd[s].st = "read"
        /\ pipe[s] # << >> \/ proc.st = "exited"
        /\ rd' = [rd EXCEPT ![s] = reader_turn(s, pipe[s], cancel)]
        /\ pipe' = [pipe EXCEPT ![s] = IF @ = << >> THEN @ ELSE Tail(@)]
    /\ UNCHANGED << uivars, sessvars, wpc, w, proc, orphans, histvars >>
    /\ UNCHANGED io

\* a reader hands its line to the event loop
ReaderPost ==
    /\ HasRoom
    /\ \E s \in Streams :
        /\ rd[s].st = "post"
        /\ evq' = HandOff(evq, Event("line", "reader", w.idx, rd[s].hand, NoText))
        /\ rd' = [rd EXCEPT ![s] = [st |-> "read", hand |-> NoText]]
    /\ UNCHANGED << loopAlive, running, status_text, output_text,
                    release_selected, release_enabled, selection, uipc, stop_cancel,
                    stop_child >>
    /\ UNCHANGED << sessvars, wpc, w, proc, pipe, orphans, histvars >>
    /\ UNCHANGED io

\* the same two steps of a reader that was left behind (its process has exited)
OrphanRead ==
    /\ \E o \in orphans :
        /\ o.st = "read"
        /\ LET t == reader_turn(o.stream, o.buf,
                                 IF o.flag = "live" THEN cancel ELSE o.flag = "set") IN
           orphans' = (orphans \ {o}) \cup
                      (IF t.st = "done" THEN {}
                       ELSE { [o EXCEPT !.st = t.st, !.hand = t.hand, !.buf = Tail(o.buf)] })
    /\ UNCHANGED << uivars, sessvars, wpc, w, proc, pipe, rd, histvars >>
    /\ UNCHANGED io

OrphanPost ==
    /\ HasRoom
    /\ \E o \in orphans :
        /\ o.st = "post"
        /\ evq' = HandOff(evq, Event("line", "reader", o.job, o.hand, NoText))
        /\ orphans' = (orphans \ {o}) \cup { [o EXCEPT !.st = "read", !.hand = NoText] }
    /\ UNCHANGED << loopAlive, running, status_text, output_text,
                    release_selected, release_enabled, selection, uipc, stop_cancel,
                    stop_child >>
    /\ UNCHANGED << sessvars, wpc, w, proc, pipe, rd, histvars >>
    /\ UNCHANGED io

(* --------------------------- specification ---------------------------- *)

UiStep ==
    \/ HandleEvent
    \/ QuitLoop
    \/ ToggleCommand
    \/ ReleaseSwitchClicked
    \/ RunInputError
    \/ RunRejected
    \/ RunThreadSpawnFailed
    \/ RunStart
    \/ StartInstall
    \/ StopRequested
    \/ StopStore
    \/ StopKill

WorkerStep ==
    \/ WorkerBegin
    \/ WorkerCheck
    \/ WorkerSpawn
    \/ WorkerSpawnFailed
    \/ WorkerStore
    \/ WorkerReclaim
    \/ WorkerDropSlot
    \/ WorkerWait
    \/ WorkerJoin
    \/ WorkerFinal
    \/ WorkerCleanup

ReaderStep ==
    \/ ReaderRead
    \/ ReaderPost

\* the steps that exist only once child.wait() has returned an error; they are
\* not among the steps of Next (readers left behind outlive their run)
WaitErrStep ==
    \/ WorkerWaitFailed
    \/ OrphanRead
    \/ OrphanPost

ProcStep ==
    \/ ProcWrite
    \/ ProcExit

Next == UiStep \/ WorkerStep \/ ReaderStep \/ ProcStep

Spec == Init /\ [][Next]_vars

\* the scheduler is fair to every thread of the program: the event loop runs
\* the closures it holds (however often the user's keys come in between), a
\* call of start or stop on the UI thread returns, the worker and the readers
\* take their steps
Fairness ==
    /\ SF_vars(HandleEvent)
    /\ WF_vars(StartInstall \/ StopStore \/ StopKill)
    /\ WF_vars(WorkerStep)
    /\ WF_vars(ReaderStep)

\* nothing is assumed of the spawned processes
CancelSpec == Init /\ [][Next]_vars /\ Fairness

\* every spawned process exits in the end
FairSpec == Init /\ [][Next]_vars /\ Fairness /\ WF_vars(ProcExit)

\* Enter is pressed once no reader of an earlier run is left
WaitErrRunStart == orphans = {} /\ RunStart

\* one custom command run again and again, by a worker whose child.wait() may
\* return an error
WaitErrNext ==
    \/ HandleEvent
    \/ WaitErrRunStart
    \/ StartInstall
    \/ WorkerStep
    \/ ReaderStep
    \/ WaitErrStep
    \/ ProcStep

WaitErrSpec == Init /\ [][WaitErrNext]_vars

(* -------------------- build_full_command on its own -------------------- *)
(* The loop of run_queue builds the command line of each job of the queue  *)
(* in turn, from the arguments start was given.                            *)

Build == SelectedCommand("Primary", 0)
Run == SelectedCommand("Primary", 1)
Test == SelectedCommand("Secondary", 1)
Fmt == SelectedCommand("Secondary", 2)

\* queues start is given: of selected commands, the default one, custom ones
ArgsQueues ==
    { selected_jobs(<< Build, Test >>), selected_jobs(<< Test, Build >>),
      selected_jobs(<< Run >>),
      << custom_job(<< "fmt", "--", "--check" >>) >>, << custom_job(<< "clippy" >>) >> }

ArgsCargoArgs == { << >>, << "--quiet" >>, << "--offline", "--quiet" >> }
ArgsProgramArgs == { << >>, << "--nocapture" >>, << "--test-threads", "1" >> }

ArgsInit ==
    /\ Constructed
    /\ io \in [queue : ArgsQueues, release_selected : BOOLEAN,
                cargo_args : ArgsCargoArgs, program_args : ArgsProgramArgs,
                out : { << >> }]

\* one turn of the loop: the command line of the next job of the queue
ArgsNext ==
    /\ Len(io.out) < Len(io.queue)
    /\ io' = [io EXCEPT !.out = Append(@, build_full_command(io.queue[Len(@) + 1],
                                                             io.release_selected,
                                                             io.cargo_args,
                                                             io.program_args))]
    /\ UNCHANGED << uivars, sessvars, jobvars, histvars >>

ArgsSpec == ArgsInit /\ [][ArgsNext]_vars

(* ----------------------- run_selection on its own ---------------------- *)
(* The user selects commands, with three texts typed in the LineEdits, and *)
(* presses Enter once: run_selection reads the texts and the selection.    *)

\* the texts of the cargo-args and program-args LineEdits: a word, blanks
\* only, two words, a quote left open
QueueCargoTexts == { << "--quiet" >>, << " " >>, << "--offline", " ", "--quiet" >>, << "'" >> }
QueueProgramTexts == { << >>, << "--nocapture" >>, << "--nocapture", " ", "'" >> }

\* the texts of the custom-command LineEdit
QueueCustomTexts ==
    { << >>, << " ", " " >>,
      << "fmt" >>, << "cargo" >>, << " ", "cargo", " " >>,
      << "cargo", " ", "fmt", " ", "--", " ", "--check" >>,
      << "fmt", " ", "--", " ", "--check" >>,
      << "cargo", " ", "cargo", " ", "fmt" >>,
      << "'" >>, << "cargo", " ", "'" >> }

NoResult == << >>

QueueInit ==
    /\ Constructed
    /\ io \in [cargo_args_text : QueueCargoTexts, program_args_text : QueueProgramTexts,
                custom_command_text : QueueCustomTexts,
                selection : { << >> }, r : { NoResult }]

\* what run_selection makes of the texts and the selection at hand
QueueResult ==
    run_selection(selection, io.cargo_args_text, io.program_args_text,
                  io.custom_command_text)

\* a command button is pressed before the request
QueueToggle == io.r = NoResult /\ ToggleCommand

\* Enter: run_selection returns on a user-input error
QueueInputError ==
    /\ io.r = NoResult
    /\ InputError(io.cargo_args_text, io.program_args_text, io.custom_command_text)
    /\ io' = [io EXCEPT !.selection = selection, !.r = QueueResult]

\* Enter: run_selection calls start, which spawns the worker thread
QueueStart ==
    /\ io.r = NoResult
    /\ Start(io.cargo_args_text, io.program_args_text, io.custom_command_text)
    /\ io' = [io EXCEPT !.selection = selection, !.r = QueueResult]

\* the event loop runs the closure of the error
QueueHandleEvent == io.r # NoResult /\ HandleEvent

QueueNext == QueueToggle \/ QueueInputError \/ QueueStart \/ QueueHandleEvent

QueueSpec == QueueInit /\ [][QueueNext]_vars

(* ------------------- CommandRunner::start on its own ------------------- *)
(* start is called with queues given as they are, the empty one among      *)
(* them, one call after the other, on a machine where cargo cannot be      *)
(* spawned, so that the worker is through its queue in no time; or Enter   *)
(* is pressed once and run_selection makes the call.                       *)

MaxCalls == 3

StartQueues == { << >>, << custom_job(<< "fmt" >>) >> }

\* the queues of the calls to come, and what the calls made so far returned
CallSeqs ==
    UNION { [1..n -> StartQueues] : n \in 1..MaxCalls }

StartInit ==
    /\ Constructed
    /\ \/ io \in [calls : CallSeqs, r : { NoResult }]
       \/ io \in [cargo_args_text : QueueCargoTexts, program_args_text : QueueProgramTexts,
                   custom_command_text : QueueCustomTexts,
                   selection : { << >> }, r : { NoResult }]

\* start returns an error: its result is all that changes
StartCallRejected ==
    /\ DirectCalls
    /\ io.calls # << >>
    /\ uipc = "idle"
    /\ start_check(Head(io.calls)) # "ok"
    /\ io' = [calls |-> Tail(io.calls), r |-> Append(io.r, start_check(Head(io.calls)))]
    /\ UNCHANGED << uivars, sessvars, jobvars, histvars >>

\* start spawns the worker thread
StartCallAccepted ==
    /\ DirectCalls
    /\ io.calls # << >>
    /\ uipc = "idle"
    /\ start(Head(io.calls), << >>, << >>, FALSE)
    /\ io' = [calls |-> Tail(io.calls), r |-> Append(io.r, "ok")]

StartNext ==
    \/ StartCallRejected
    \/ StartCallAccepted
    \/ DirectCalls /\ StartInstall
    \/ DirectCalls /\ WorkerBegin
    \/ DirectCalls /\ WorkerCheck
    \/ DirectCalls /\ WorkerSpawnFailed
    \/ DirectCalls /\ WorkerFinal
    \/ DirectCalls /\ WorkerCleanup
    \/ ~DirectCalls /\ QueueToggle
    \/ ~DirectCalls /\ QueueInputError
    \/ ~DirectCalls /\ QueueStart
    \/ QueueHandleEvent

StartSpec == StartInit /\ [][StartNext]_vars

(* ----------------------- toggle_command on its own --------------------- *)
(* The user clicks command buttons, with or without the modifier key, and  *)
(* the release switch; no run is requested.                                *)

SelectButtons == { Build, Run, Test, Fmt }

NoClick == << >>

SelectInit == Constructed /\ io = NoClick

\* a click on a command button: the click and the selection it found are kept
SelectToggle ==
    /\ \E candidate \in SelectButtons, extend \in BOOLEAN :
        /\ toggle_command(candidate, extend)
        /\ io' = [candidate |-> candidate, extend |-> extend, before |-> selection]
    /\ UNCHANGED << loopAlive, evq, running, status_text, output_text,
                    uipc, stop_cancel, stop_child >>
    /\ UNCHANGED << sessvars, jobvars, histvars >>

SelectNext == SelectToggle \/ ReleaseSwitchClicked

SelectSpec == SelectInit /\ [][SelectNext]_vars

(* ------------------------------ properties ---------------------------- *)

AlreadyRunning == UiError("another job is already running", "Failed")

\* the closures run_selection posts for the inputs that never reach start
UserInputErrors ==
    { run_selection(selection, ct, pt, xt).ev :
        ct \in CargoArgsTexts, pt \in ProgramArgsTexts,
        xt \in { t \in CustomTexts :
                   \E c \in CargoArgsTexts, q \in ProgramArgsTexts :
                       ~run_selection(selection, c, q, t).ok } }

\* a run request is served in this step
RequestServed ==
    /\ uipc = "idle"
    /\ \/ uipc' = "start"
       \/ Len(evq') = Len(evq) + 1 /\ evq'[Len(evq')].from = "ui"

\* C1: at most one session exists.  start creates a worker only when the slot
\* is empty and no worker or reader of an earlier session lives, the slot is
\* filled only by the start that created the worker, and a request served
\* while a session is active ends in the "already running" error (or in a
\* user-input error before start is called): no worker is created and the
\* active queue and its position stay as they were.
C1_OneSessionAtATime ==
    [][ /\ (uipc = "idle" /\ uipc' = "start") =>
                (~active /\ wpc = "none" /\ rd = NoReaders /\ wpc' = "begin")
        /\ (~active /\ active') => (uipc = "start" /\ wpc # "none")
        /\ (active /\ RequestServed) =>
                /\ uipc' = "idle"
                /\ \/ evq' = Append(evq, AlreadyRunning)
                   \/ \E e \in UserInputErrors : evq' = Append(evq, e)
                /\ w' = w /\ wpc' = wpc /\ active'
      ]_vars

\* a request was rejected while the worker of the active session had not yet
\* cleared the slot
C1_Witness == active /\ wpc = "cleanup" /\ AlreadyRunning \in Range(evq)

\* C2: the step that rejects a start as "already running" changes nothing of
\* the active session (cancel flag, child slot, queue, position, process,
\* pipes, readers) and nothing the Observer shows; it only queues the error
\* closure behind the closures already pending, so the run continues from the
\* very state it was in.
C2_RejectionLeavesRunAlone ==
    [][ evq' = Append(evq, AlreadyRunning) =>
            /\ active
            /\ UNCHANGED << sessvars, jobvars, histvars >>
            /\ UNCHANGED << running, status_text, output_text, loopAlive >>
      ]_vars

\* a request was rejected before the first job of the active run was spawned
C2_Witness ==
    /\ active /\ ~cancel /\ wpc = "check" /\ w.idx = 1
    /\ AlreadyRunning \in Range(evq)

\* the success lines the Observer shows
SuccessLines == SelectSeq(output_text, LAMBDA t : t.k = "completed")

\* every process of the run exited successfully, the last job returned
\* success and no cancellation was stored
AllJobsSucceeded ==
    /\ w.queue # << >>
    /\ ~cancel
    /\ w.status = "success"
    /\ \A i \in DOMAIN spawnlog : spawnlog[i].exit = "success"

\* C3: when the closure that ends a run (running = false) is applied and all
\* jobs of the queue succeeded with no cancellation, the Observer goes from
\* Running to "Idle", the spawns of the run are the jobs 1..N once each in
\* order, and the success lines shown are those of the queue in queue order.
C3_AllSuccessRun ==
    [][ (running /\ ~running' /\ AllJobsSucceeded) =>
            /\ status_text' = Text("Idle", << >>, "", 0, 0)
            /\ [i \in DOMAIN spawnlog |-> spawnlog[i].job] = [i \in 1..total |-> i]
            /\ [i \in DOMAIN SuccessLines |-> SuccessLines[i].d]
                    = [i \in 1..total |-> w.queue[i].display_name]
      ]_vars

\* a run of two jobs has ended with both success lines shown
C3_Witness ==
    /\ ~running /\ wpc = "none" /\ ~active /\ evq = << >>
    /\ total = 2 /\ AllJobsSucceeded
    /\ Len(spawnlog) = 2 /\ Len(SuccessLines) = 2
    /\ status_text.k = "Idle"

\* the failure line of the k-th spawn of the run
FailureLine(k) ==
    Text("exited with status", w.queue[spawnlog[k].job].display_name, spawnlog[k].exit, 0, 0)

BeginPending == \E e \in Range(evq) : e.k = "begin"

\* C4: once a job's process has exited with a non-success status (on its own
\* or killed), it is the last spawn of the run, the loop stays at that job, no
\* closure about a later job is ever pending, no progress status of a later
\* job is shown, and once the loop is left the failure line of the job has
\* been handed to the Observer (pending or shown) if the event loop lives.
C4_FailFast ==
    \A k \in DOMAIN spawnlog :
        spawnlog[k].exit \in {"failure", "killed"} =>
            /\ k = Len(spawnlog)
            /\ w.idx = spawnlog[k].job
            /\ \A e \in Range(evq) : e.from # "ui" => e.job <= spawnlog[k].job
            /\ (~BeginPending /\ status_text.k = "progress") => status_text.n <= spawnlog[k].job
            /\ (loopAlive /\ wpc \in {"final", "cleanup", "none"}) =>
                    \/ \E e \in Range(evq) : e.line = FailureLine(k)
                    \/ ~BeginPending /\ FailureLine(k) \in Range(output_text)

\* the first of two jobs failed and the run is over
C4_Witness ==
    /\ total = 2 /\ Len(spawnlog) = 1 /\ spawnlog[1].exit = "failure"
    /\ wpc = "none" /\ evq = << >> /\ loopAlive /\ ~running

\* C5 (as stated in the specification): a stop() that has returned before the
\* first process of the run is spawned leaves the run without any spawn.
C5_NoSpawnAfterStop == spawnlog # << >> => ~spawnlog[1].stopped

\* C6 (as stated in the specification): a stop() that found the session
\* active kills the job's process if that process is alive.
C6_StopKillsLiveProcess ==
    [][ (uipc = "stop_kill" /\ uipc' = "idle" /\ stop_child /\ proc.st = "alive") =>
            proc'.st # "alive" ]_vars

\* C7 (as stated in the specification): once a stop() that found the session
\* active has returned, the run ends (the worker exits and the slot is
\* cleared) whatever the job's process does.
C7_CancelAloneEndsRun == (stopped /\ active) ~> (wpc = "none" /\ ~active)

Posted == SubSeq(evq', Len(evq) + 1, Len(evq'))

\* a stop() finds the slot empty
IdleStop == uipc = "idle" /\ uipc' = "stop_store" /\ ~active

\* C9: a stop() that finds no active session clones nothing, and its two
\* further steps change no state but the UI thread's own position: no flag is
\* set, no process is killed, nothing is queued for the Observer.  A run that
\* starts afterwards has its cancel flag clear when its worker begins.
C9_IdleStopIsNoOp ==
    /\ [][ /\ IdleStop => (~stop_cancel' /\ ~stop_child')
           /\ (uipc \in {"stop_store", "stop_kill"} /\ uipc' # uipc
                    /\ ~stop_cancel /\ ~stop_child) =>
                  UNCHANGED << loopAlive, evq, running, status_text, output_text,
                               release_selected, release_enabled, selection,
                               stop_cancel, stop_child,
                               sessvars, jobvars, histvars >>
         ]_vars
    /\ [](wpc = "begin" => ~cancel)

\* a stop() with the slot empty is about to run its kill step
C9_Witness == uipc = "stop_kill" /\ ~stop_cancel /\ ~stop_child /\ ~active /\ running

\* the notice of a job that cannot take --release
Notice(cmd) == Text("ignoring --release", cmd.display_name, "", 0, 0)

\* the loop computes a job's command line and moves on to spawn it
ArgsBuilt == wpc = "check" /\ wpc' = "spawn"

\* C10 (amended): "--release" is in the job's argument vector iff release is
\* selected and the job supports it; the notice is handed to the Observer iff
\* release is selected and the job does not support it; with release not
\* selected there is neither flag nor notice.
C10_ReleaseFlag ==
    [][ ArgsBuilt =>
            /\ ("--release" \in Range(w'.args)) <=>
                    (w.release_selected /\ command.supports_release)
            /\ (\E i \in DOMAIN Posted : Posted[i].line = Notice(command)) <=>
                    (w.release_selected /\ ~command.supports_release)
      ]_vars

\* release is selected for a job that does not support it: the notice is
\* pending and the command line has no flag
C10_Witness ==
    /\ wpc = "spawn" /\ w.release_selected /\ ~command.supports_release
    /\ "--release" \notin Range(w.args)
    /\ \E e \in Range(evq) : e.line = Notice(command)

\* C10 (as stated in the specification): the flag iff both booleans, and in
\* every other combination the notice is emitted.
C10_NoticeInEveryOtherCase ==
    [][ ArgsBuilt =>
            /\ ("--release" \in Range(w'.args)) <=>
                    (w.release_selected /\ command.supports_release)
            /\ (\E i \in DOMAIN Posted : Posted[i].line = Notice(command)) <=>
                    ~(w.release_selected /\ command.supports_release)
      ]_vars

(* ---- C11: the program's arguments follow "--", or are left out ---- *)

\* the command lines built so far, each with its job
Built == { [cmd |-> io.queue[i], args |-> io.out[i]] : i \in DOMAIN io.out }

\* the job takes the program's arguments, and there are some
Trailing(cmd) == cmd.allows_program_args /\ io.program_args # << >>

\* the length of a command line up to the end of cargo's arguments
HeadLen(cmd) ==
    Len(cmd.fragments)
    + (IF io.release_selected /\ cmd.supports_release THEN 1 ELSE 0)
    + Len(io.cargo_args)

\* C11: a command line ends with "--" and the program's arguments, appended
\* after cargo's arguments, exactly when the job allows program arguments and
\* the list is not empty; otherwise nothing follows cargo's arguments, and the
\* line holds no token but the job's fragments, --release and cargo's arguments
C11_TrailingArgs ==
    \A b \in Built :
        IF Trailing(b.cmd)
        THEN /\ Len(b.args) = HeadLen(b.cmd) + 1 + Len(io.program_args)
             /\ SubSeq(b.args, HeadLen(b.cmd) + 1, Len(b.args))
                    = << "--" >> \o io.program_args
        ELSE /\ Len(b.args) = HeadLen(b.cmd)
             /\ Range(b.args) \subseteq
                    Range(b.cmd.fragments) \cup { "--release" } \cup Range(io.cargo_args)

\* a queue of one job that takes the program's arguments and one that leaves
\* them out has had both its command lines built
C11_Witness ==
    /\ io.program_args # << >>
    /\ \E b \in Built : Trailing(b.cmd) /\ "--" \in Range(b.args)
    /\ \E b \in Built : ~b.cmd.allows_program_args /\ "--" \notin Range(b.args)

(* ---- C12: the command line of a job, token by token ---- *)

\* --release for a job that takes it while the switch is on
ReleaseFlag(cmd) ==
    IF io.release_selected /\ cmd.supports_release THEN << "--release" >> ELSE << >>

\* "--" and the program's arguments for a job that takes them
TrailingArgs(cmd) == IF Trailing(cmd) THEN << "--" >> \o io.program_args ELSE << >>

\* the selection Build then Test, with --release, --quiet and --nocapture
BuildThenTest ==
    /\ io.queue = selected_jobs(<< Build, Test >>)
    /\ io.release_selected
    /\ io.cargo_args = << "--quiet" >>
    /\ io.program_args = << "--nocapture" >>

\* C12: the command line of every job is its fragments, then --release when
\* it applies, then cargo's arguments in their order, then "--" and the
\* program's arguments in their order when they apply; the command lines are
\* built in the order of the queue, so that Build then Test with --release,
\* --quiet and --nocapture gives build --release --quiet and then
\* test --release --quiet -- --nocapture
C12_CommandLine ==
    /\ \A i \in DOMAIN io.out :
            io.out[i] = io.queue[i].fragments \o ReleaseFlag(io.queue[i])
                        \o io.cargo_args \o TrailingArgs(io.queue[i])
    /\ BuildThenTest /\ Len(io.out) = 2 =>
            io.out = << << "build", "--release", "--quiet" >>,
                        << "test", "--release", "--quiet", "--", "--nocapture" >> >>

\* both command lines of Build then Test are built
C12_Witness == BuildThenTest /\ Len(io.out) = 2

(* ---- C13: a selection shuts the custom text out ---- *)

\* the request has been served
Served == io.r # NoResult

\* the texts of the two argument LineEdits parse
ArgsParse == parse_args(io.cargo_args_text).ok /\ parse_args(io.program_args_text).ok

\* the words of the custom text, as far as it can be split
CustomWords == split(io.custom_command_text).words

\* C13: with a command selected the custom text is not read: the request
\* fares as it does with an empty custom text, a custom text that cannot be
\* split does not fail it, and the queue is the jobs of the selection alone;
\* with nothing selected the queue holds one job and no more
C13_SelectionShutsCustomOut ==
    Served =>
        /\ io.selection # << >> =>
                /\ io.r = run_selection(io.selection, io.cargo_args_text,
                                        io.program_args_text, << >>)
                /\ io.r.ok = ArgsParse
                /\ io.r.ok => io.r.queue = selected_jobs(io.selection)
        /\ io.selection = << >> /\ io.r.ok => Len(io.r.queue) = 1

\* a run starts from a selection while the custom text has a quote left open
C13_Witness ==
    /\ Served /\ io.r.ok
    /\ io.selection # << >>
    /\ ~split(io.custom_command_text).ok
    /\ wpc = "begin" /\ w.queue = io.r.queue

(* ---- C14: the job of a custom command ---- *)

\* nothing is selected, the argument texts parse and the custom text has words
CustomRequest ==
    /\ Served
    /\ io.selection = << >>
    /\ ArgsParse
    /\ ~IsBlankText(io.custom_command_text)
    /\ split(io.custom_command_text).ok

\* the words of the custom text less the first one when it is "cargo"
LessCargo == IF CustomWords[1] = "cargo" THEN Tail(CustomWords) ELSE CustomWords

\* C14: with nothing selected, a custom text whose words, less one leading
\* "cargo", are not used up gives a queue of one job: its fragments are those
\* words (a second "cargo" stays), it does not support --release and it takes
\* program arguments; "cargo fmt -- --check" and "fmt -- --check" both give
\* the fragments fmt, --, --check
C14_CustomJob ==
    /\ CustomRequest /\ LessCargo # << >> =>
            /\ io.r.ok
            /\ Len(io.r.queue) = 1
            /\ io.r.queue[1].fragments = LessCargo
            /\ ~io.r.queue[1].supports_release
            /\ io.r.queue[1].allows_program_args
            /\ wpc = "begin" /\ w.queue = io.r.queue
    /\ CustomRequest /\ (\/ CustomWords = << "cargo", "fmt", "--", "--check" >>
                          \/ CustomWords = << "fmt", "--", "--check" >>) =>
            io.r.queue[1].fragments = << "fmt", "--", "--check" >>
    /\ CustomRequest /\ CustomWords = << "cargo", "cargo", "fmt" >> =>
            io.r.queue[1].fragments = << "cargo", "fmt" >>

\* the worker thread is given the job of "cargo fmt -- --check"
C14_Witness ==
    /\ CustomRequest
    /\ CustomWords = << "cargo", "fmt", "--", "--check" >>
    /\ wpc = "begin"
    /\ w.queue = << custom_job(<< "fmt", "--", "--check" >>) >>

(* ---- C15: a custom command with nothing after "cargo" ---- *)

EmptyCustomCommand ==
    UiError("custom command needs a subcommand", "Custom command incomplete")

\* no worker thread, no session, no process, the UI thread back in the loop
NothingStarted ==
    /\ wpc = "none" /\ w = NoWorker
    /\ ~active /\ activeLock = "none" /\ uipc = "idle"
    /\ proc = NoProc /\ spawnlog = << >>
    /\ ~running

\* C15: with nothing selected, a custom text whose words are used up once a
\* leading "cargo" is dropped ends the request with the error of the
\* incomplete custom command: no queue is built (the default job is not
\* taken instead), start is not called and no session exists
C15_EmptyCustomCommand ==
    CustomRequest /\ LessCargo = << >> =>
        /\ ~io.r.ok
        /\ io.r.ev = EmptyCustomCommand
        /\ io.r.queue = << >>
        /\ NothingStarted
        /\ \/ evq = << EmptyCustomCommand >> /\ output_text = << >>
           \/ evq = << >> /\ output_text = << EmptyCustomCommand.line >>
                          /\ status_text = EmptyCustomCommand.status

\* the custom text "cargo" alone has been refused and the Observer shows it
C15_Witness ==
    /\ CustomRequest
    /\ CustomWords = << "cargo" >>
    /\ output_text = << EmptyCustomCommand.line >>
    /\ NothingStarted

(* ---- C16: nothing selected, nothing typed: cargo run ---- *)

\* nothing is selected, the argument texts parse and the custom text is blank
EmptyRequest ==
    /\ Served
    /\ io.selection = << >>
    /\ ArgsParse
    /\ IsBlankText(io.custom_command_text)

\* the descriptor of Run in the catalog
RunSpec == spec_for(Run)[1]

\* C16: with nothing selected and a custom text that is empty or blank, the
\* queue handed to start is one job: the "run" command of the catalog, with
\* that descriptor's two capabilities
C16_DefaultJob ==
    EmptyRequest =>
        /\ RunSpec.subcommand = "run"
        /\ io.r.ok
        /\ Len(io.r.queue) = 1
        /\ io.r.queue[1].fragments = << "run" >>
        /\ io.r.queue[1].supports_release = RunSpec.supports_release
        /\ io.r.queue[1].allows_program_args = RunSpec.allows_program_args
        /\ wpc = "begin" /\ w.queue = io.r.queue

\* the worker thread is given cargo run for a custom text of blanks only
C16_Witness ==
    /\ EmptyRequest
    /\ io.custom_command_text = << " ", " " >>
    /\ wpc = "begin"
    /\ w.queue[1].fragments = << "run" >>

(* ---- C17: the queue follows the order of the clicks ---- *)

\* the job of a selected command
JobOf(sel) ==
    LET sp == spec_for(sel)[1]
    IN  QueuedCommand(<< sp.subcommand >>, << sp.subcommand >>,
                      sp.supports_release, sp.allows_program_args)

\* a click changes the selection: the command clicked becomes the only one,
\* or is added after those selected before it, or is taken out
Clicked ==
    \/ \E c \in Clickable : selection' = << c >>
    \/ \E c \in Clickable : c \notin Range(selection) /\ selection' = Append(selection, c)
    \/ \E i \in DOMAIN selection : selection' = RemoveAt(selection, i)

\* C17: the selection keeps the commands in the order of the clicks that
\* added them; the queue of a run started from a selection has one job per
\* selected command, in that order; the processes are spawned in the order
\* of the queue
C17_SelectionOrder ==
    [][ /\ selection' # selection => Clicked
        /\ wpc = "none" /\ wpc' = "begin" /\ selection # << >> =>
                /\ Len(w'.queue) = Len(selection)
                /\ \A i \in DOMAIN selection : w'.queue[i] = JobOf(selection[i])
        /\ \A k \in DOMAIN spawnlog' :
                /\ spawnlog'[k].job = k
                /\ spawnlog'[k].args[1] = w'.queue[k].fragments[1] ]_vars

\* Fmt was clicked before Build: cargo fmt has run, and then cargo build
C17_Witness ==
    /\ selection = << Fmt, Build >>
    /\ Len(spawnlog) = 2
    /\ spawnlog[1].args[1] = "fmt"
    /\ spawnlog[2].args[1] = "build"

(* ---- C18: the errors of the user's input ---- *)

\* the text has a quote left open
Malformed(text) == ~split(text).ok

\* the error run_selection finds in the texts, in the order it reads them
InputErrorFound ==
    IF Malformed(io.cargo_args_text)
        THEN << UiError("invalid cargo args", "Failed") >>
    ELSE IF Malformed(io.program_args_text)
        THEN << UiError("invalid program args", "Failed") >>
    ELSE IF io.selection # << >> \/ IsBlankText(io.custom_command_text)
        THEN << >>
    ELSE IF Malformed(io.custom_command_text)
        THEN << UiError("invalid custom command", "Failed") >>
    ELSE IF LessCargo = << >>
        THEN << EmptyCustomCommand >>
    ELSE << >>

\* C18: an argument text that cannot be split, and with nothing selected a
\* custom text that cannot be split or has no word after "cargo", ends the
\* request with one closure that appends one line and sets a final status
\* (Failed or Custom command incomplete): start is not called, there is no
\* worker thread, no session, no process, and the runner stays idle; a
\* request without such an error reaches start
C18_UserInputErrors ==
    Served =>
        /\ io.r.ok = (InputErrorFound = << >>)
        /\ ~io.r.ok =>
                /\ io.r.ev = InputErrorFound[1]
                /\ io.r.ev.line.k = "warn"
                /\ io.r.ev.status.k \in { "Failed", "Custom command incomplete" }
                /\ NothingStarted
                /\ \/ evq = << io.r.ev >> /\ output_text = << >>
                   \/ evq = << >> /\ output_text = << io.r.ev.line >>
                                  /\ status_text = io.r.ev.status

\* a program-args text with a quote left open has been refused and the
\* Observer shows the one line and the status Failed
C18_Witness ==
    /\ Served
    /\ ~Malformed(io.cargo_args_text)
    /\ Malformed(io.program_args_text)
    /\ output_text = << UiError("invalid program args", "Failed").line >>
    /\ status_text.k = "Failed"
    /\ NothingStarted

(* ---- C19: one process at a time ---- *)

\* the processes spawned whose exit the worker has not collected
Uncollected == { k \in DOMAIN spawnlog : spawnlog[k].exit = "" }

\* cmd.spawn() has just succeeded
Spawned == Len(spawnlog') = Len(spawnlog) + 1

\* C19: the worker has at most one process whose exit it has not collected,
\* and a live process is that one; a process is spawned only when no process
\* of the run is alive, every earlier one has exited and been waited for, and
\* no reader thread of an earlier job is left; spawn_and_stream returns the
\* exit status of a job only with its process gone and both readers finished
C19_OneJobAtATime ==
    [][ /\ Cardinality(Uncollected) <= 1
        /\ proc.st = "alive" => Uncollected = { Len(spawnlog) }
        /\ Spawned =>
                /\ proc.st = "none"
                /\ \A s \in Streams : rd[s].st = "none"
                /\ \A k \in DOMAIN spawnlog : spawnlog[k].exit # ""
        /\ wpc = "join" /\ wpc' # "join" =>
                /\ proc.st = "exited"
                /\ \A s \in Streams : rd[s].st = "done" ]_vars

\* the second job of a queue runs after a first one whose output was read
C19_Witness ==
    /\ Len(spawnlog) = 2
    /\ spawnlog[1].exit = "success"
    /\ proc.st = "alive"
    /\ \E i \in DOMAIN output_text : output_text[i].k \in { "stdout", "[stderr]" }

(* ---- C20: no line of a job after spawn_and_stream has returned ---- *)

\* the worker is inside spawn_and_stream with the readers of its job spawned
Streaming == wpc \in { "reclaim", "drop", "wait", "join" }

\* C20: a reader hands a line to the Observer only while the worker is still
\* inside spawn_and_stream for the job the line belongs to, whether the call
\* ends with an exit status or with an error; so every line of a job comes
\* before the line that reports how the job ended
C20_NoLineAfterReturn ==
    [][ \A e \in Range(Posted) :
            e.from = "reader" => Streaming /\ e.job = w.idx ]_vars

(* ---- C21: the flag is checked before each job ---- *)

\* the worker has left the loop of run_queue
LoopLeft == wpc \in { "final", "cleanup" }

\* C21: when the worker comes to a job with the flag set it leaves the loop
\* at once, handing nothing to the Observer for that job (no notice, no
\* progress status) and spawning nothing; once out of the loop it spawns no
\* process, posts nothing but the final status, and does not go back in
C21_CancelledBeforeJob ==
    [][ /\ wpc = "check" /\ cancel /\ wpc' # wpc =>
                /\ wpc' = "final"
                /\ evq' = evq
                /\ w' = w
                /\ spawnlog' = spawnlog /\ proc' = proc
        /\ LoopLeft =>
                /\ spawnlog' = spawnlog
                /\ wpc' \in { "final", "cleanup", "none" }
                /\ \A e \in Range(Posted) : e.from = "worker" => e.k = "end" ]_vars

\* the flag was set before the first of two jobs: the worker is out of the
\* loop and nothing was spawned
C21_Witness ==
    /\ wpc = "final"
    /\ cancel
    /\ w.idx = 1 /\ Len(w.queue) = 2
    /\ spawnlog = << >>

(* ---- C22: the readers and the flag ---- *)

\* C22: with the flag set, no reader hands a line of the job to the Observer
C22_NoLineOnceCancelled ==
    [][ \A e \in Range(Posted) : e.from = "reader" => ~cancel ]_vars

(* ---- C23: the final status tells of the cancellation ---- *)

\* the worker posts the closure that ends the run
Finishing == wpc = "final" /\ wpc' = "cleanup"

\* the event loop runs the closure that ends a run
EndHandled == loopAlive' /\ evq # << >> /\ Head(evq).k = "end" /\ evq' = Tail(evq)

\* C23: however the loop ended, the closure that ends the run sets the status
\* Cancelled exactly when the flag is set as the worker reads it after the
\* loop, and Idle otherwise; the event loop then shows that status with
\* running false.  A flag set after the last job has succeeded counts
C23_FinalStatus ==
    [][ /\ Finishing /\ loopAlive =>
                /\ Len(Posted) = 1
                /\ Posted[1].k = "end"
                /\ Posted[1].status.k = (IF cancel THEN "Cancelled" ELSE "Idle")
        /\ EndHandled =>
                /\ status_text' = Head(evq).status
                /\ status_text'.k \in { "Cancelled", "Idle" }
                /\ ~running' ]_vars

\* both jobs of a queue have succeeded, the flag was set after that, and the
\* run has ended with the status Cancelled
C23_Witness ==
    /\ wpc = "none"
    /\ Len(w.queue) = 2 /\ Len(spawnlog) = 2
    /\ \A k \in DOMAIN spawnlog : spawnlog[k].exit = "success" /\ ~spawnlog[k].cancelled
    /\ cancel
    /\ status_text.k = "Cancelled"
    /\ ~running

(* ---- C24: the status left by a run that failed to spawn ---- *)

\* C24: when a run that was not cancelled has stopped at a job that failed to
\* spawn, the closure that ends the run leaves the status Failed in place
C24_FailedStatusStays ==
    [][ EndHandled /\ w.status = "spawning cargo" /\ Head(evq).status.k # "Cancelled" =>
            status_text'.k = "Failed" ]_vars

(* ---- C25: a job that fails to spawn ends the queue ---- *)

\* the worker leaves cmd.spawn() without a process
SpawnFails == wpc = "spawn" /\ Len(spawnlog') = Len(spawnlog) /\ wpc' # wpc

\* the result line of a job whose process has exited
IsResultLine(e) == e.line.k \in { "completed", "exited with status" }

\* C25: when the spawn of job k fails the worker hands over one closure, with
\* the line "failed to run cargo <job>: <error>" and the status Failed with
\* the error, and leaves the loop; from then on nothing is spawned and no
\* result line is posted, for job k or a later one, and only jobs before k
\* have been spawned
C25_SpawnFailureStopsQueue ==
    [][ /\ SpawnFails =>
                /\ wpc' = "final"
                /\ w'.idx = w.idx
                /\ loopAlive =>
                        /\ Len(Posted) = 1
                        /\ Posted[1].job = w.idx
                        /\ Posted[1].line = Text("failed to run", w.queue[w.idx].display_name,
                                                  "spawning cargo", 0, 0)
                        /\ Posted[1].status.k = "Failed"
                        /\ Posted[1].status.x = "spawning cargo"
        /\ LoopLeft /\ w.status = "spawning cargo" =>
                /\ spawnlog' = spawnlog
                /\ Len(spawnlog) = w.idx - 1
                /\ \A e \in Range(Posted) : ~IsResultLine(e) ]_vars

\* the first of two jobs failed to spawn: the run is over, the Observer shows
\* the error line and nothing was spawned
C25_Witness ==
    /\ wpc = "none"
    /\ w.status = "spawning cargo"
    /\ w.idx = 1 /\ Len(w.queue) = 2
    /\ spawnlog = << >>
    /\ \E i \in DOMAIN output_text : output_text[i].k = "failed to run"

(* ---- C26: a hand-off that fails after the start of the run ---- *)

\* C26: with the Observer gone after the run has begun, the worker still goes
\* on from the head of the loop to spawn the job it has come to
C26_HandOffFailureGoesOn ==
    [][ wpc = "check" /\ wpc' # wpc /\ ~loopAlive /\ w.idx <= Len(w.queue) /\ ~cancel =>
            wpc' = "spawn" ]_vars

(* ---- C27: no lock is held across blocking I/O ---- *)

\* the worker is blocked in child.wait()
Waiting == wpc = "wait" /\ proc.st = "alive"

\* a reader is blocked in the read of its stream
Reading == \E s \in Streams : rd[s].st = "read" /\ pipe[s] = << >> /\ proc.st = "alive"

\* C27: the lock of the child slot is held only by the worker between taking
\* the child out and dropping the guard, and the lock of the active slot only
\* by the UI thread inside start; so while the worker waits for the process
\* it holds neither, and the reader threads never hold one
C27_NoLockAcrossBlockingIO ==
    /\ childLock \in { "none", "worker" }
    /\ childLock = "worker" => wpc = "drop"
    /\ activeLock \in { "none", "ui" }
    /\ activeLock = "ui" => uipc = "start"
    /\ wpc = "wait" => childLock = "none"
    /\ Reading => childLock = "none" \/ wpc = "drop"

\* the worker and both readers are blocked on a live process while the UI
\* thread is inside stop, about to lock the child slot
C27_Witness ==
    /\ Waiting
    /\ \A s \in Streams : rd[s].st = "read" /\ pipe[s] = << >>
    /\ uipc = "stop_kill" /\ stop_child
    /\ childLock = "none" /\ activeLock = "none"

(* ---- C28: the flag stays set ---- *)

\* a reader has come back from its read and made its check
ReaderChecked(s) == rd[s].st = "read" /\ rd'[s] # rd[s]

\* C28: the flag of a run, once true, is true until start creates the flag of
\* the next run; every check made while it is true sees it: the worker at
\* the head of the loop leaves the loop, a reader that has read a line or
\* the end of its stream ends without a line in hand
C28_CancelStays ==
    [][ /\ cancel /\ ~cancel' => wpc = "none" /\ wpc' = "begin"
        /\ cancel /\ wpc = "check" /\ wpc' # wpc => wpc' = "final"
        /\ \A s \in Streams :
                cancel /\ ReaderChecked(s) => rd'[s].st = "done" /\ rd'[s].hand = NoText ]_vars

\* with the flag set, a reader has dropped the line its process wrote and
\* ended, while the worker still waits for the process
C28_Witness ==
    /\ cancel
    /\ wpc = "wait"
    /\ \E s \in Streams :
            /\ proc.wrote[s] = 1
            /\ pipe[s] = << >>
            /\ rd[s].st = "done"
    /\ \A e \in Range(evq) : e.from # "reader"
    /\ \A i \in DOMAIN output_text : output_text[i].k \notin { "stdout", "[stderr]" }

(* ---- C29: the child slot ---- *)

\* spawn_and_stream has been entered and has not returned
InSpawnAndStream == wpc \in { "spawn", "store", "reclaim", "drop", "wait", "join" }

\* C29: the slot holds the child only from the store that follows the spawn
\* to the take that precedes the wait: it is empty before the first spawn,
\* while the worker waits for the child or joins the readers, and whenever
\* spawn_and_stream is not running
C29_ChildSlot ==
    /\ child_holder = "child" => wpc = "reclaim" /\ proc.st # "none"
    /\ spawnlog = << >> => child_holder = "none"
    /\ wpc \in { "drop", "wait", "join" } => child_holder = "none"
    /\ ~InSpawnAndStream => child_holder = "none"

\* the second job of a run is being waited for, its process still running, and
\* the slot is empty; a stop on its way found nothing to kill
C29_Witness ==
    /\ wpc = "wait"
    /\ Len(spawnlog) = 2
    /\ proc.st = "alive"
    /\ child_holder = "none"
    /\ cancel

(* ---- C30: the first event and the progress statuses ---- *)

IsProgress(e) == e.from = "worker" /\ e.k = "status" /\ e.status.k = "progress"

BeginHandled == loopAlive' /\ evq # << >> /\ Head(evq).k = "begin" /\ evq' = Tail(evq)

\* C30: the worker posts nothing before the event that opens the run, whose
\* status is "Running N command(s)" with N the length of the queue, and which
\* sets running and clears the output when the event loop runs it; a progress
\* status is posted for job i of N as the worker goes from the head of the
\* loop to the spawn of job i, with i - 1 jobs spawned so far; the spawn of
\* job i is reached in no other way; and i is 1 after the opening event and
\* one more each time the worker comes back to the head of the loop
C30_ProgressInOrder ==
    [][ /\ wpc = "begin" /\ wpc' = "check" =>
              Posted = << Event("begin", "worker", 0, NoText,
                                Text("Running", << >>, "", Len(w.queue), 0)) >>
        /\ \A e \in Range(Posted) : e.from = "worker" /\ e.k # "begin" => wpc \notin { "none", "begin" }
        /\ BeginHandled =>
              /\ running'
              /\ output_text' = << >>
              /\ status_text' = Head(evq).status
        /\ \A e \in Range(Posted) :
              IsProgress(e) =>
                  /\ wpc = "check" /\ wpc' = "spawn"
                  /\ e.status.n = w.idx
                  /\ e.status.m = Len(w.queue)
                  /\ e.status.d = w.queue[w.idx].display_name
                  /\ Len(spawnlog) < w.idx
        /\ wpc' = "spawn" /\ wpc # "spawn" =>
              /\ Posted # << >>
              /\ IsProgress(Posted[Len(Posted)])
              /\ w'.idx = w.idx
        /\ Spawned => wpc = "spawn" /\ spawnlog'[Len(spawnlog')].job = w.idx
        /\ wpc' = "check" /\ wpc # "check" =>
              \/ wpc = "begin" /\ w'.idx = 1
              \/ wpc # "begin" /\ w'.idx = w.idx + 1 ]_vars

\* the second job of two has been spawned, after the statuses [1/2] and [2/2];
\* the second of them is still waiting to be run
C30_Witness ==
    /\ Len(w.queue) = 2
    /\ Len(spawnlog) = 2
    /\ spawnlog[1].job = 1
    /\ spawnlog[2].job = 2
    /\ \E e \in Range(evq) : IsProgress(e) /\ e.status.n = 2 /\ e.status.m = 2

(* ---- C31: running = true and running = false ---- *)

\* the events the run's own threads post: the worker's and the readers'
FromRun(e) == e.from \in { "worker", "reader" }

\* C31: a run posts running = true once, as its worker's first step, and
\* running = false once, as its worker leaves run_queue (whenever the event
\* loop is there to take it); after that step no thread of the run posts
\* anything until start spawns the next worker
C31_RunningEvents ==
    [][ /\ \A e \in Range(Posted) : e.k = "begin" => wpc = "begin" /\ wpc' = "check"
        /\ \A e \in Range(Posted) : e.k = "end" => wpc = "final" /\ wpc' = "cleanup"
        /\ wpc = "begin" /\ wpc' = "check" => Len(Posted) = 1 /\ Posted[1].k = "begin"
        /\ wpc = "final" /\ wpc' # wpc /\ loopAlive => Len(Posted) = 1 /\ Posted[1].k = "end"
        /\ wpc' = "begin" /\ wpc # "begin" => wpc = "none"
        /\ wpc' = "final" /\ wpc # "final" => wpc \notin { "none", "begin", "cleanup" }
        /\ wpc = "cleanup" => wpc' \in { "cleanup", "none" }
        /\ wpc \in { "cleanup", "none" } => \A e \in Range(Posted) : ~FromRun(e) ]_vars

(* ---- C32: the empty queue ---- *)

\* start is called with the empty queue in this step
EmptyQueueCall == DirectCalls /\ io' # io /\ Head(io.calls) = << >>

\* run_selection has returned in this step
RunSelectionReturns == ~DirectCalls /\ io.r = NoResult /\ io'.r # NoResult

\* C32: a call of start with the empty queue returns "no commands selected"
\* and changes nothing: not the slot, not the session's cells, no worker, no
\* closure for the Observer, whether a run is active or not; a worker is
\* created only with a queue that is not empty; and the queue run_selection
\* hands to start, which the worker gets, is never empty
C32_EmptyQueue ==
    [][ /\ EmptyQueueCall =>
              /\ io'.r = Append(io.r, "no commands selected")
              /\ UNCHANGED << uivars, sessvars, jobvars, histvars >>
        /\ wpc' = "begin" /\ wpc # "begin" => w'.queue # << >>
        /\ RunSelectionReturns /\ io'.r.ok =>
              /\ io'.r.queue # << >>
              /\ wpc' = "begin"
              /\ w'.queue = io'.r.queue
        /\ RunSelectionReturns /\ ~io'.r.ok => wpc' = "none" ]_vars

\* start was given a queue and spawned the worker, the session is in the slot,
\* and a call with the empty queue has returned its error since
C32_Witness ==
    /\ DirectCalls
    /\ io.r = << "ok", "no commands selected" >>
    /\ active
    /\ wpc = "check"
    /\ w.queue # << >>

(* ---- C33: a request that follows running = false ---- *)

\* the worker of the last run has posted its final closure and the event loop
\* has run it: the Observer shows running = false
EndTold ==
    /\ w # NoWorker
    /\ wpc \in { "cleanup", "none" }
    /\ ~running
    /\ \A e \in Range(evq) : e.k \notin { "begin", "end" }

\* C33: once the Observer has been told running = false for a run, no request
\* is rejected as "another job is already running"
C33_AcceptedAfterEnd ==
    [][ EndTold => evq' # Append(evq, AlreadyRunning) ]_vars

(* ---- C34: spawns after the flag is set ---- *)

\* the processes of the run that were spawned with the flag already set
SpawnedCancelled == { i \in DOMAIN spawnlog : spawnlog[i].cancelled }

\* C34: of the processes a run spawns, only the last can have been spawned
\* with the cancel flag set: there is at most one of them and no job is
\* spawned after it; a spawn in a step that starts with the flag set is that
\* of the job whose check the worker had passed
C34_OneSpawnAfterCancel ==
    [][ /\ Cardinality(SpawnedCancelled') <= 1
        /\ \A i \in SpawnedCancelled' : i = Len(spawnlog')
        /\ Spawned /\ cancel => wpc = "spawn" /\ SpawnedCancelled = {} ]_vars

\* the first of two jobs was spawned with the flag set and has exited with
\* success; the run is over and the second job was never spawned
C34_Witness ==
    /\ Len(w.queue) = 2
    /\ Len(spawnlog) = 1
    /\ spawnlog[1].cancelled
    /\ spawnlog[1].exit = "success"
    /\ wpc = "none"

(* ---- C35: the slot is cleared after it is filled ---- *)

\* C35: the session goes into the slot while its worker thread exists, the
\* worker takes it out as it exits, never while start is still on its way to
\* store it, and whenever no worker thread exists the slot is empty
C35_ClearedAfterInstalled ==
    [][ /\ ~active /\ active' => uipc = "start" /\ wpc # "none" /\ wpc' # "none"
        /\ wpc # "none" /\ wpc' = "none" => active /\ ~active' /\ uipc # "start"
        /\ wpc' = "none" => ~active' ]_vars

\* the worker is through run_queue and waits for the lock of the slot, which
\* start still holds: the session is not in the slot yet
C35_Witness ==
    /\ wpc = "cleanup"
    /\ uipc = "start"
    /\ activeLock = "ui"
    /\ ~active

(* ---- C36: start and stop return ---- *)

\* the lock of the active slot is held by the UI thread inside start only, the
\* lock of the child slot by the worker between its take and its drop only
\* (stop holds it for the length of a kill, and no other lock with it); the
\* holder's next step is the release, which waits for nothing
LocksNotNested ==
    /\ activeLock \in { "none", "ui" }
    /\ childLock \in { "none", "worker" }
    /\ activeLock = "ui" => uipc = "start"
    /\ childLock = "worker" => wpc = "drop"
    /\ uipc \in { "stop_store", "stop_kill" } => activeLock = "none"
    /\ wpc = "cleanup" => childLock = "none"

\* the UI thread is inside start or stop
InCall == uipc # "idle"

\* C36: no thread holds one lock while it takes the other, a held lock is
\* released by its holder's next step, and every call of start or stop
\* returns, whatever the processes of the run do (they may run for ever)
C36_CallsReturn == [] LocksNotNested /\ (InCall ~> ~InCall)

\* stop has returned, having cloned the cells of the session, and the process
\* of the job is still running, the worker waiting for it
C36_Witness ==
    /\ ~InCall
    /\ stopped
    /\ cancel
    /\ proc.st = "alive"
    /\ wpc = "wait"

(* ---- C37: the cells of a run ---- *)

\* start spawns the worker of a new run in this step
RunCreated == wpc' = "begin" /\ wpc # "begin"

\* the UI thread is inside stop, past its look at the active slot
InStop == uipc \in { "stop_store", "stop_kill" }

\* C37: a run starts with its flag false and its child slot empty, at a moment
\* when no stop holds clones of any cells; no run is created while the UI
\* thread is inside stop, so the cells stop cloned are those of the latest
\* session until it returns; the flag is set and a process killed only by a
\* stop that found a session in the slot; and a flag that is set was set by a
\* stop that came after the start of the run
C37_FreshCells ==
    [][ /\ RunCreated =>
              /\ ~cancel' /\ child_holder' = "none"
              /\ ~InStop /\ ~stop_cancel /\ ~stop_child
        /\ InStop => ~RunCreated
        /\ ~cancel /\ cancel' => uipc = "stop_store" /\ stop_cancel
        /\ proc.st = "alive" /\ proc'.status = "killed" => uipc = "stop_kill" /\ stop_child
        /\ InStop /\ ~stop_cancel /\ uipc' # uipc => cancel' = cancel /\ proc' = proc
        /\ cancel' => stopped' \/ (uipc' = "stop_kill" /\ stop_cancel') ]_vars

\* the run before was cancelled, as the Observer still shows; the worker of the
\* next run is at the head of its loop with its flag clear
C37_Witness ==
    /\ status_text.k = "Cancelled"
    /\ wpc = "check"
    /\ w.idx = 1
    /\ ~cancel
    /\ ~stopped
    /\ child_holder = "none"

(* ---- C38: the child is in the slot when the worker comes for it ---- *)

\* the "child process missing" error has been raised
ChildMissing(e) == e.k = "fail" /\ e.line.x = "child process missing"

\* C38: when the worker locks the slot to take the child back, the child is
\* there, whatever stop has done in between: the error "child process
\* missing" is never raised, posted or shown
C38_ChildPresent ==
    /\ wpc = "reclaim" => child_holder = "child"
    /\ w.status # "child process missing"
    /\ \A e \in Range(evq) : ~ChildMissing(e)
    /\ status_text.x # "child process missing"

\* stop has killed the process through the slot and returned; the child is
\* still in the slot for the worker to take
C38_Witness ==
    /\ wpc = "reclaim"
    /\ stopped
    /\ uipc = "idle"
    /\ proc.st = "exited"
    /\ proc.status = "killed"
    /\ child_holder = "child"

(* ---- C39: the selection after a click ---- *)

NoDuplicates(q) == \A i, j \in DOMAIN q : q[i] = q[j] => i = j

\* q without x, the others in the order they had
Others(q, x) == SelectSeq(q, LAMBDA e : e # x)

\* C39: the selection never holds a command twice; after a click without the
\* modifier it is the clicked command alone; after a click with the modifier
\* it is the selection before with the clicked command taken out, the others
\* in their order (nothing need be left), or put at the end if it was not in
C39_Toggle ==
    /\ NoDuplicates(selection)
    /\ io # NoClick =>
          /\ ~io.extend => selection = << io.candidate >>
          /\ io.extend /\ io.candidate \in Range(io.before) =>
                selection = Others(io.before, io.candidate)
          /\ io.extend /\ io.candidate \notin Range(io.before) =>
                selection = Append(io.before, io.candidate)

\* Fmt is taken out of the middle of three selected commands
C39_Witness ==
    /\ io # NoClick
    /\ io.extend
    /\ io.before = << Build, Fmt, Test >>
    /\ io.candidate = Fmt
    /\ selection = << Build, Test >>

(* ---- C40: the release switch and the selection ---- *)

\* every selected command is in the catalog with support for --release
AllSupportRelease ==
    \A i \in DOMAIN selection :
        /\ spec_for(selection[i]) # << >>
        /\ spec_for(selection[i])[1].supports_release

IsNotice(e) == e.from = "worker" /\ e.k = "line" /\ e.line.k = "ignoring --release"

\* C40: the switch is on only while every selected command supports
\* --release; it changes by a click only while it is enabled and nothing
\* runs, and is turned off by no other step than a click on a command; the
\* notice is posted only by a run that was started with the switch on and
\* nothing selected, for the job made of the custom text
C40_ReleaseOnlyIfSupported ==
    [][ /\ release_selected' => AllSupportRelease'
        /\ release_selected' /\ ~release_selected =>
              release_enabled /\ ~running /\ selection' = selection
        /\ \A e \in Range(Posted) :
              IsNotice(e) =>
                  /\ selection = << >>
                  /\ w.release_selected
                  /\ w.queue = << custom_job(w.queue[1].fragments) >>
                  /\ e.line.d = w.queue[1].display_name ]_vars

\* with nothing selected and the switch on, the custom command was run and the
\* notice for it is on its way to the Observer
C40_Witness ==
    /\ selection = << >>
    /\ release_selected
    /\ \E e \in Range(evq) : IsNotice(e)
    /\ wpc = "spawn"

====
